---- MODULE Spec2Model ----
(***************************************************************************)
(* A model of the dual-stack networking core: the TLS-like handshake, the  *)
(* cryptographic helpers and the bearer tokens of                          *)
(* src/src/security/tls_protocol.{h,cpp}, the address model of             *)
(* src/src/core/ip_address.{h,cpp}, the transport of src/src/core and the  *)
(* asynchronous server of src/src/network/async_connection_manager.        *)
(*                                                                         *)
(* The module holds one specification per component.  Each specification   *)
(* starts the component it is about in its constructed state, parks the    *)
(* variables of the other components in a fixed state and leaves them      *)
(* unchanged.                                                              *)
(***************************************************************************)
EXTENDS Integers, Sequences, FiniteSets, TLC

VARIABLES
    config,         \* TLSContext::config_ (TLSConfiguration)
    client_suites,  \* the suite list of the initiator of this connection
    hello,          \* the CLIENT_HELLO in flight: <<>> or <<HandshakeMessage>>
    srv,            \* the responder's TLSSession and what negotiation returned
    sock,           \* the TLSSecureSocket of the connection
    heap,           \* whether that socket exists, and the blocks the last
                    \* operation on it gave back to the allocator
    call,           \* pure functions: the call in progress and its result
    sockets,        \* transport: the Socket objects, each <<>> or <<Socket>>
    acceptors,      \* transport: the Acceptor objects, each <<>> or <<Acceptor>>
    os,             \* transport: the descriptor table and the ports of the host
    io,             \* transport: the last call, its result and its system calls
    hist,           \* transport: what the caller has asked of each Acceptor
    server,         \* the AsyncDualStackServer: queue, connections, worker
    manager,        \* the AsyncConnectionManager: its connections
    threads,        \* what each application thread is in the middle of
    icewall,        \* IcewallProtection: the known-bad list and the output
    pool,           \* performance::thread_pool: queue, workers, futures
    conn_manager,   \* the AsyncConnectionManager as a registry of connections
    dual_server     \* the AsyncDualStackServer: its threads, start to stop

tlsVars  == <<config, client_suites, hello, srv, sock, heap>>
addrVars == <<call>>
netVars  == <<sockets, acceptors, os, io, hist>>
asyncVars == <<server, manager, threads>>
auxVars  == <<icewall, pool>>
serverVars == <<conn_manager, dual_server>>
vars     == <<config, client_suites, hello, srv, sock, heap, call,
              sockets, acceptors, os, io, hist, server, manager, threads,
              icewall, pool, conn_manager, dual_server>>

(***************************************************************************)
(* Generic helpers.                                                        *)
(***************************************************************************)

\* std::optional<T> and std::unique_ptr<T> are sequences of length 0 or 1.
Some(x) == <<x>>

Range(s) == {s[i] : i \in 1..Len(s)}

\* The characters '0'..'9', and operator<< of a non-negative integer in decimal.
DigitChar == <<"0", "1", "2", "3", "4", "5", "6", "7", "8", "9">>

RECURSIVE ToDecimal(_)
ToDecimal(n) ==
    IF n < 10 THEN <<DigitChar[n + 1]>>
    ELSE ToDecimal(n \div 10) \o <<DigitChar[(n % 10) + 1]>>

\* Sequences over S of length at most n, without repeated elements.
RECURSIVE DistinctSeqs(_, _)
DistinctSeqs(S, n) ==
    IF n = 0 THEN {<<>>}
    ELSE LET shorter == DistinctSeqs(S, n - 1)
         IN  shorter \cup
             UNION {{Append(s, x) : x \in S \ Range(s)} :
                    s \in {t \in shorter : Len(t) = n - 1}}

(***************************************************************************)
(* TLS handshake: src/src/security/tls_protocol.h, tls_protocol.cpp        *)
(***************************************************************************)

\* enum class CipherSuite (the wire codes, in decimal)
TLS_AES_128_GCM_SHA256 == 4865
TLS_AES_256_GCM_SHA384 == 4866
TLS_KYBER768_AES256_GCM_SHA384 == 4868
TLS_DILITHIUM3_AES256_GCM_SHA384 == 4869
TLS_KYBER1024_DILITHIUM5_CHACHA20_POLY1305_SHA512 == 4870

\* enum class Version
TLS_1_3_PQC == 773

\* TLSHandshake::HandshakeType
CLIENT_HELLO == 1

\* The suites the lists of the model range over: the two post-quantum and the
\* two classical suites negotiation knows, and the hybrid suite that only
\* is_post_quantum knows.  (The other enumerators are treated by every
\* function modelled here exactly like an unknown suite.)
CipherSuite ==
    { TLS_AES_128_GCM_SHA256, TLS_AES_256_GCM_SHA384,
      TLS_KYBER768_AES256_GCM_SHA384, TLS_DILITHIUM3_AES256_GCM_SHA384,
      TLS_KYBER1024_DILITHIUM5_CHACHA20_POLY1305_SHA512 }

\* Bounds of the model.
MaxServerSuites == 3    \* longest TLSConfiguration::preferred_suites
MaxClientSuites == 2    \* longest list an initiator offers
MaxSecret == 2          \* distinct values AES256Encryption::generate_key draws

ServerLists == DistinctSeqs(CipherSuite, MaxServerSuites) \ {<<>>}
ClientLists == DistinctSeqs(CipherSuite, MaxClientSuites) \ {<<>>}
Secrets     == 1..MaxSecret

\* struct TLSConfiguration (the fields the handshake claims are about)
TLSConfiguration ==
    [preferred_suites : ServerLists, require_pqc : BOOLEAN]

\* TLSSession::TLSSession(version, suite); the two random vectors are never
\* read by any member function and are left out.
TLSSession(version, suite) ==
    [version_ |-> version, cipher_suite_ |-> suite,
     master_secret_ |-> <<>>, is_resumed_ |-> FALSE]

\* The first element of seq that is in S, as an optional.
RECURSIVE FirstIn(_, _)
FirstIn(seq, S) ==
    IF seq = <<>> THEN <<>>
    ELSE IF Head(seq) \in S THEN Some(Head(seq))
    ELSE FirstIn(Tail(seq), S)

\* TLSSession::negotiate_cipher_suite: the value returned.  The two loops run
\* over the client's list in the client's order; the responder's configured
\* list is not an input of the function.
negotiate_cipher_suite(suites) ==
    LET pq == FirstIn(suites, {TLS_KYBER768_AES256_GCM_SHA384,
                               TLS_DILITHIUM3_AES256_GCM_SHA384})
        classical == FirstIn(suites, {TLS_AES_256_GCM_SHA384,
                                      TLS_AES_128_GCM_SHA256})
    IN  IF pq # <<>> THEN pq ELSE classical

\* Whether a suite is one of the three is_post_quantum names.
IsPostQuantumSuite(suite) ==
    suite \in { TLS_KYBER768_AES256_GCM_SHA384,
                TLS_DILITHIUM3_AES256_GCM_SHA384,
                TLS_KYBER1024_DILITHIUM5_CHACHA20_POLY1305_SHA512 }

\* TLSSession::is_post_quantum
is_post_quantum(session) == IsPostQuantumSuite(session.cipher_suite_)

\* TLSSession::generate_master_secret: stores the pre-master secret itself.
generate_master_secret(session, pre_master_secret) ==
    [session EXCEPT !.master_secret_ = <<pre_master_secret>>]

\* TLSSecureSocket::is_tls_negotiated
is_tls_negotiated == sock.tls_negotiated_

\* TLSSecureSocket::negotiate_post_quantum
negotiate_post_quantum ==
    IF sock.session_ = <<>> THEN FALSE
    ELSE is_post_quantum(sock.session_[1])

\* TLSHandshake::create_client_hello: "<version>|<suite>,<suite>,..." in
\* decimal, as a sequence of characters.
RECURSIVE JoinSuites(_)
JoinSuites(suites) ==
    IF suites = <<>> THEN <<>>
    ELSE IF Len(suites) = 1 THEN ToDecimal(suites[1])
    ELSE ToDecimal(Head(suites)) \o <<",">> \o JoinSuites(Tail(suites))

create_client_hello(max_version, supported_suites) ==
    [type |-> CLIENT_HELLO,
     data |-> ToDecimal(max_version) \o <<"|">> \o JoinSuites(supported_suites)]

\* The initiator puts its hello on the wire.
CreateClientHello ==
    /\ hello' = Some(create_client_hello(TLS_1_3_PQC, client_suites))
    /\ UNCHANGED <<serverVars, auxVars, asyncVars, config, client_suites, srv, sock, heap, call, netVars>>

\* The responder calls negotiate_cipher_suite on its session with the list the
\* initiator offers; cipher_suite_ is assigned only when a suite is returned.
NegotiateCipherSuite ==
    LET chosen == negotiate_cipher_suite(client_suites)
    IN  /\ srv' = [session  |-> IF chosen = <<>> THEN srv.session
                                ELSE [srv.session EXCEPT !.cipher_suite_ = chosen[1]],
                   called   |-> TRUE,
                   selected |-> chosen]
        /\ UNCHANGED <<serverVars, auxVars, asyncVars, config, client_suites, hello, sock, heap, call, netVars>>

\* A block of memory given back to the allocator: the member or local it
\* held and the bytes it holds when it is given back.
Block(what, bytes) == [what |-> what, bytes |-> bytes]

\* ~TLSSession, implicit: the vector master_secret_ is destroyed as it is.
TLSSession_destroy(session) ==
    IF session.master_secret_ = <<>> THEN {}
    ELSE {Block("master_secret_", session.master_secret_)}

\* TLSSecureSocket::perform_handshake: a fresh session with the fixed suite, a
\* random pre-master secret stored as the master secret, tls_negotiated_ set.
\* Assigning session_ destroys the session of an earlier handshake, and the
\* local pre_master_secret is destroyed at the return.
PerformHandshake ==
    \E pre_master_secret \in Secrets :
        /\ heap.alive
        /\ heap' = [heap EXCEPT !.released =
                       (IF sock.session_ = <<>> THEN {}
                        ELSE TLSSession_destroy(sock.session_[1]))
                       \cup {Block("pre_master_secret", <<pre_master_secret>>)}]
        /\ sock' = [session_ |-> Some(generate_master_secret(
                                    TLSSession(TLS_1_3_PQC,
                                               TLS_KYBER768_AES256_GCM_SHA384),
                                    pre_master_secret)),
                    tls_negotiated_ |-> TRUE]
        /\ UNCHANGED <<serverVars, auxVars, asyncVars, config, client_suites, hello, srv, call, netVars>>

\* TLSContext(config), TLSContext::create_secure_socket and a responder
\* session, all freshly constructed.
TlsInit ==
    /\ config \in TLSConfiguration
    /\ client_suites \in ClientLists
    /\ hello = <<>>
    /\ srv = [session  |-> TLSSession(TLS_1_3_PQC, TLS_KYBER768_AES256_GCM_SHA384),
              called   |-> FALSE,
              selected |-> <<>>]
    /\ sock = [session_ |-> <<>>, tls_negotiated_ |-> FALSE]
    /\ heap = [alive |-> TRUE, released |-> {}]

\* The handshake component at rest: one fixed configuration, nothing sent.
TlsPark ==
    /\ config = [preferred_suites |-> <<TLS_KYBER768_AES256_GCM_SHA384>>,
                 require_pqc |-> FALSE]
    /\ client_suites = <<TLS_KYBER768_AES256_GCM_SHA384>>
    /\ hello = <<>>
    /\ srv = [session  |-> TLSSession(TLS_1_3_PQC, TLS_KYBER768_AES256_GCM_SHA384),
              called   |-> FALSE,
              selected |-> <<>>]
    /\ sock = [session_ |-> <<>>, tls_negotiated_ |-> FALSE]
    /\ heap = [alive |-> TRUE, released |-> {}]

(***************************************************************************)
(* Address model: src/src/core/ip_address.h, ip_address.cpp                *)
(*                                                                         *)
(* A string is a sequence of one-character strings; positions are counted  *)
(* from 0 as in the source.  TLC's integers are 32 bits wide, so the       *)
(* 32-bit ipv4_address::address is kept as its four octets (most           *)
(* significant first) and each 64-bit half of an ipv6_address as its four  *)
(* 16-bit words: the shifts and masks of the source select exactly these   *)
(* digits.                                                                 *)
(***************************************************************************)

\* std::string_view::npos
NPOS == -1

\* 2^64, the modulus of std::size_t arithmetic, stood for by a value beyond
\* every index of the model (the wrapped value is only ever compared with 8).
SIZE_T_MODULUS == 1073741824

\* dualstack_expected::expected<T, int>
Expected(v)   == [has_value |-> TRUE,  value |-> v]
Unexpected(e) == [has_value |-> FALSE, error |-> e]

HexLower == <<"0", "1", "2", "3", "4", "5", "6", "7", "8", "9",
              "a", "b", "c", "d", "e", "f">>
HexUpper == <<"0", "1", "2", "3", "4", "5", "6", "7", "8", "9",
              "A", "B", "C", "D", "E", "F">>

\* Whether c is a digit of the base, and its value.
IsDigitOf(c, base) ==
    \E d \in 1..base : HexLower[d] = c \/ HexUpper[d] = c
DigitValue(c) ==
    (CHOOSE d \in 1..16 : HexLower[d] = c \/ HexUpper[d] = c) - 1

\* str.substr(pos, count)
SubStr(str, pos, count) == SubSeq(str, pos + 1, pos + count)

\* str.find(ch, pos)
RECURSIVE Find(_, _, _)
Find(str, ch, pos) ==
    IF pos >= Len(str) THEN NPOS
    ELSE IF str[pos + 1] = ch THEN pos
    ELSE Find(str, ch, pos + 1)

\* str.find("::")
RECURSIVE FindDoubleColon(_, _)
FindDoubleColon(str, pos) ==
    IF pos + 1 >= Len(str) THEN NPOS
    ELSE IF str[pos + 1] = ":" /\ str[pos + 2] = ":" THEN pos
    ELSE FindDoubleColon(str, pos + 1)

\* std::from_chars(first, last, value, base) for an unsigned text: the longest
\* prefix of digits is converted; no digit at all is invalid_argument, a value
\* above max is result_out_of_range.
RECURSIVE DigitPrefixLen(_, _)
DigitPrefixLen(str, base) ==
    IF str = <<>> \/ ~IsDigitOf(Head(str), base) THEN 0
    ELSE 1 + DigitPrefixLen(Tail(str), base)

RECURSIVE DigitsValue(_, _)
DigitsValue(digits, base) ==
    IF digits = <<>> THEN 0
    ELSE DigitsValue(SubSeq(digits, 1, Len(digits) - 1), base) * base
         + DigitValue(digits[Len(digits)])

from_chars(str, base, max) ==
    LET n == DigitPrefixLen(str, base)
        v == DigitsValue(SubSeq(str, 1, n), base)
    IN  IF n = 0 THEN [ec |-> "invalid_argument", value |-> 0]
        ELSE IF v > max THEN [ec |-> "result_out_of_range", value |-> 0]
        ELSE [ec |-> "ok", value |-> v]

\* operator<< of an unsigned integer under std::hex
RECURSIVE ToHex(_)
ToHex(n) ==
    IF n < 16 THEN <<HexLower[n + 1]>>
    ELSE ToHex(n \div 16) \o <<HexLower[(n % 16) + 1]>>

\* struct ipv4_address: the four octets of address, most significant first.
ipv4_address(octets) == [address |-> octets]

\* ipv4_address::to_string
ipv4_to_string(a) ==
    ToDecimal(a.address[1]) \o <<".">> \o ToDecimal(a.address[2]) \o <<".">> \o
    ToDecimal(a.address[3]) \o <<".">> \o ToDecimal(a.address[4])

\* The while loop of ipv4_address::from_string and the check after it.
RECURSIVE ipv4_parse_loop(_, _, _, _)
ipv4_parse_loop(str, pos, shift, addr) ==
    IF ~(pos < Len(str) /\ shift >= 0)
    THEN IF shift # -8 THEN Unexpected(-5) ELSE Expected(ipv4_address(addr))
    ELSE
      LET found     == Find(str, ".", pos)
          dot_pos   == IF found = NPOS THEN Len(str) ELSE found
          octet_str == SubStr(str, pos, dot_pos - pos)
      IN  IF octet_str = <<>> \/ Len(octet_str) > 3 THEN Unexpected(-2)
          ELSE
            LET result == from_chars(octet_str, 10, 2147483647)
            IN  IF result.ec # "ok" \/ result.value > 255 THEN Unexpected(-3)
                ELSE
                  LET addr2  == [addr EXCEPT ![4 - (shift \div 8)] = result.value]
                      shift2 == shift - 8
                      pos2   == dot_pos + 1
                  IN  IF pos2 > Len(str) /\ shift2 >= 0 THEN Unexpected(-4)
                      ELSE ipv4_parse_loop(str, pos2, shift2, addr2)

\* ipv4_address::from_string
ipv4_from_string(str) ==
    IF \E i \in 1..Len(str) : ~(IsDigitOf(str[i], 10) \/ str[i] = ".")
    THEN Unexpected(-1)
    ELSE ipv4_parse_loop(str, 0, 24, <<0, 0, 0, 0>>)

\* ipv6_address: the eight 16-bit words of high and low.
ipv6_words(a) == a.high \o a.low
ipv6_address(words) == [high |-> SubSeq(words, 1, 4), low |-> SubSeq(words, 5, 8)]

\* The first loop of ipv6_address::to_string and the check after it: the
\* compression range <<compress_start, compress_len>>.
RECURSIVE find_compression(_, _, _, _, _, _)
find_compression(words, i, compress_start, compress_len, current_start, current_len) ==
    IF i >= 8
    THEN IF current_len > compress_len /\ current_len > 1
         THEN <<current_start, current_len>>
         ELSE <<compress_start, compress_len>>
    ELSE IF words[i + 1] = 0
    THEN find_compression(words, i + 1, compress_start, compress_len,
                          IF current_len = 0 THEN i ELSE current_start,
                          current_len + 1)
    ELSE IF current_len > compress_len /\ current_len > 1
    THEN find_compression(words, i + 1, current_start, current_len, current_start, 0)
    ELSE find_compression(words, i + 1, compress_start, compress_len, current_start, 0)

\* The output loop of ipv6_address::to_string.
RECURSIVE ipv6_write(_, _, _, _, _, _)
ipv6_write(words, compress_start, compress_len, i, compressed, oss) ==
    IF i >= 8 THEN oss
    ELSE IF i = compress_start /\ compress_len > 0
    THEN ipv6_write(words, compress_start, compress_len,
                    i + (compress_len - 1) + 1, TRUE,
                    oss \o (IF i = 0 THEN <<":", ":">> ELSE <<":">>))
    ELSE ipv6_write(words, compress_start, compress_len, i + 1, FALSE,
                    (IF i > 0 /\ ~compressed THEN oss \o <<":">> ELSE oss)
                        \o ToHex(words[i + 1]))

\* ipv6_address::to_string
ipv6_to_string(a) ==
    LET words == ipv6_words(a)
        range == find_compression(words, 0, 0, 0, 0, 0)
        oss   == ipv6_write(words, range[1], range[2], 0, FALSE, <<>>)
    IN  IF range[2] = 8 THEN <<":", ":">> ELSE oss

\* The number of ':' in str at positions pos and later.
RECURSIVE CountColons(_, _)
CountColons(str, pos) ==
    IF pos >= Len(str) THEN 0
    ELSE (IF str[pos + 1] = ":" THEN 1 ELSE 0) + CountColons(str, pos + 1)

\* The while loop of ipv6_address::from_string and the conversion after it.
RECURSIVE ipv6_parse_loop(_, _, _, _, _)
ipv6_parse_loop(str, compress_pos, parse_pos, word_index, words) ==
    IF ~(parse_pos < Len(str) /\ word_index < 8)
    THEN Expected(ipv6_address(words))
    ELSE IF parse_pos = compress_pos
    THEN
      LET after == parse_pos + 2
          remaining_words ==
              CountColons(str, after) + (IF str[Len(str)] # ":" THEN 1 ELSE 0)
      IN  IF after >= Len(str) THEN Expected(ipv6_address(words))
          ELSE ipv6_parse_loop(str, compress_pos, after,
                               (8 - remaining_words) % SIZE_T_MODULUS, words)
    ELSE
      LET found     == Find(str, ":", parse_pos)
          colon_pos == IF found = NPOS THEN Len(str) ELSE found
          word_str  == SubStr(str, parse_pos, colon_pos - parse_pos)
      IN  IF word_str = <<>> THEN Unexpected(-2)
          ELSE
            LET result == from_chars(word_str, 16, 65535)
            IN  IF result.ec # "ok" THEN Unexpected(-3)
                ELSE
                  LET words2 == [words EXCEPT ![word_index + 1] = result.value]
                  IN  IF colon_pos + 1 > Len(str)
                      THEN Expected(ipv6_address(words2))
                      ELSE ipv6_parse_loop(str, compress_pos, colon_pos + 1,
                                           word_index + 1, words2)

\* ipv6_address::from_string
ipv6_from_string(str) ==
    IF str = <<>> THEN Unexpected(-1)
    ELSE IF str = <<":", ":">> THEN Expected(ipv6_address(<<0, 0, 0, 0, 0, 0, 0, 0>>))
    ELSE ipv6_parse_loop(str, FindDoubleColon(str, 0), 0, 0,
                         <<0, 0, 0, 0, 0, 0, 0, 0>>)

\* class IPAddress: std::variant<ipv4_address, ipv6_address>
IPAddressV4(a)       == [family |-> "ipv4", addr |-> a]
IPAddressV6(a)       == [family |-> "ipv6", addr |-> a]

\* An operator== of ipv6_address that compares high and forgets low.
IPAddress_eq_high_only(a, b) ==
    /\ a.family = b.family
    /\ IF a.family = "ipv4" THEN a.addr.address = b.addr.address
       ELSE a.addr.high = b.addr.high

\* IPAddress::operator==: std::variant equality over the defaulted operator==
\* of ipv4_address and ipv6_address (same alternative, same members).
IPAddress_eq(a, b) ==
    /\ a.family = b.family
    /\ IF a.family = "ipv4" THEN a.addr.address = b.addr.address
       ELSE a.addr.high = b.addr.high /\ a.addr.low = b.addr.low

\* IPAddress::operator!=
IPAddress_ne(a, b) == ~IPAddress_eq(a, b)

\* IPAddress::from_string
IPAddress_from_string(str) ==
    IF Find(str, ":", 0) # NPOS
    THEN LET result == ipv6_from_string(str)
         IN  IF result.has_value THEN Expected(IPAddressV6(result.value))
             ELSE Unexpected(result.error)
    ELSE LET result == ipv4_from_string(str)
         IN  IF result.has_value THEN Expected(IPAddressV4(result.value))
             ELSE Unexpected(result.error)

\* IPAddress::to_string
IPAddress_to_string(ip) ==
    IF ip.family = "ipv4" THEN ipv4_to_string(ip.addr) ELSE ipv6_to_string(ip.addr)

(***************************************************************************)
(* Address model: the inputs and the calls.                                *)
(***************************************************************************)

\* Bounds of the model.
MaxV4Groups == 5        \* dot-separated groups of an IPv4 text
MaxV6ShortGroups == 4   \* colon-separated groups, drawn from V6Groups
MaxV6LongGroups == 11   \* colon-separated groups, drawn from V6PlainGroups

\* The texts between the separators.  An empty group next to a separator gives
\* a leading, trailing or doubled separator.
V4Groups ==
    { <<>>, <<"0">>, <<"2", "5", "5">>, <<"2", "5", "6">>,
      <<"0", "2", "5", "5">>, <<"1", "x">> }
V6Groups ==
    { <<>>, <<"1">>, <<"d", "b", "8">>, <<"2", "0", "0", "1">>,
      <<"1", "g">>, <<"1", "2", "3", "4", "5">> }
V6PlainGroups == { <<>>, <<"1">> }

\* The values of the octets of the IPv4 addresses drawn, and of each of the
\* eight words of the IPv6 addresses drawn: every pattern of zero and non-zero
\* words occurs (0x2001, 0xdb8 and 1 are the non-zero values).
V4Octets == {0, 7, 192, 255}
V6WordChoices == <<{0, 8193}, {0, 3512}, {0, 1}, {0, 1}, {0, 1}, {0, 1}, {0, 1}, {0, 1}>>

RECURSIVE JoinWith(_, _)
JoinWith(groups, sep) ==
    IF groups = <<>> THEN <<>>
    ELSE IF Len(groups) = 1 THEN groups[1]
    ELSE Head(groups) \o <<sep>> \o JoinWith(Tail(groups), sep)

SeqsUpTo(S, n) == UNION {[1..k -> S] : k \in 1..n}

V4Strings == {JoinWith(g, ".") : g \in SeqsUpTo(V4Groups, MaxV4Groups)}
V6Strings ==
    {JoinWith(g, ":") : g \in SeqsUpTo(V6Groups, MaxV6ShortGroups)}
    \cup {JoinWith(g, ":") : g \in SeqsUpTo(V6PlainGroups, MaxV6LongGroups)}

V4Addresses ==
    {IPAddressV4(ipv4_address(<<o1, o2, o3, o4>>)) :
        o1 \in V4Octets, o2 \in V4Octets, o3 \in V4Octets, o4 \in V4Octets}
V6Addresses ==
    {IPAddressV6(ipv6_address(<<w1, w2, w3, w4, w5, w6, w7, w8>>)) :
        w1 \in V6WordChoices[1], w2 \in V6WordChoices[2],
        w3 \in V6WordChoices[3], w4 \in V6WordChoices[4],
        w5 \in V6WordChoices[5], w6 \in V6WordChoices[6],
        w7 \in V6WordChoices[7], w8 \in V6WordChoices[8]}

\* The addresses compared with one another: the IPv4 and the IPv6 addresses
\* whose numeric values coincide (0.0.0.0 and ::, 0.0.0.1 and ::1), and IPv6
\* addresses that differ in high only or in low only.
CompareAddresses ==
    {IPAddressV4(ipv4_address(<<o1, 0, 0, o4>>)) : o1 \in {0, 192}, o4 \in {0, 1}}
    \cup {IPAddressV6(ipv6_address(<<w1, 0, 0, w4, w5, 0, 0, w8>>)) :
              w1 \in {0, 8193}, w4 \in {0, 1}, w5 \in {0, 1}, w8 \in {0, 1}}

Idle == [op |-> "idle", arg |-> <<>>, ret |-> <<>>]

\* ipv4_address::from_string(s)
Ipv4FromString ==
    /\ call.op = "idle"
    /\ \E s \in V4Strings :
           call' = [op |-> "ipv4_from_string", arg |-> s, ret |-> ipv4_from_string(s)]
    /\ UNCHANGED <<serverVars, auxVars, asyncVars, tlsVars, netVars>>

\* ipv6_address::from_string(s)
Ipv6FromString ==
    /\ call.op = "idle"
    /\ \E s \in V6Strings :
           call' = [op |-> "ipv6_from_string", arg |-> s, ret |-> ipv6_from_string(s)]
    /\ UNCHANGED <<serverVars, auxVars, asyncVars, tlsVars, netVars>>

\* IPAddress::from_string(s)
IPAddressFromString ==
    /\ call.op = "idle"
    /\ \E s \in V4Strings \cup V6Strings :
           call' = [op |-> "IPAddress_from_string", arg |-> s,
                    ret |-> IPAddress_from_string(s)]
    /\ UNCHANGED <<serverVars, auxVars, asyncVars, tlsVars, netVars>>

\* a.to_string()
IPAddressToString ==
    /\ call.op = "idle"
    /\ \E a \in V4Addresses \cup V6Addresses :
           call' = [op |-> "IPAddress_to_string", arg |-> a,
                    ret |-> IPAddress_to_string(a)]
    /\ UNCHANGED <<serverVars, auxVars, asyncVars, tlsVars, netVars>>

\* IPAddress::from_string(a.to_string()), the round trip of test_ipv6_parsing
RoundTrip ==
    /\ call.op = "idle"
    /\ \E a \in V4Addresses \cup V6Addresses :
           call' = [op |-> "round_trip", arg |-> a,
                    ret |-> IPAddress_from_string(IPAddress_to_string(a))]
    /\ UNCHANGED <<serverVars, auxVars, asyncVars, tlsVars, netVars>>

\* a == b and a != b, as test_address_comparison evaluates them
IPAddressEquals ==
    /\ call.op = "idle"
    /\ \E a \in CompareAddresses, b \in CompareAddresses :
           call' = [op |-> "IPAddress_eq", arg |-> <<a, b>>,
                    ret |-> [eq |-> IPAddress_eq(a, b), ne |-> IPAddress_ne(a, b)]]
    /\ UNCHANGED <<serverVars, auxVars, asyncVars, tlsVars, netVars>>

\* The caller takes the result.
Return ==
    /\ call.op # "idle"
    /\ call' = Idle
    /\ UNCHANGED <<serverVars, auxVars, asyncVars, tlsVars, netVars>>

(***************************************************************************)
(* Transport: src/src/core/socket.h, socket.cpp, acceptor.h, acceptor.cpp  *)
(*                                                                         *)
(* The host is a descriptor table and a set of ports held by others.  A    *)
(* system call is an operator on that state; whether the host lets it      *)
(* succeed is an input of the call.  Buffers are kept by their sizes only. *)
(***************************************************************************)

\* enum class error_code
success == 0
connection_failed == 1
bind_failed == 2
listen_failed == 3
accept_failed == 4
invalid_address == 7
timeout == 8

\* Bounds of the model.
MaxSockets == 2     \* Socket objects alive at a time
MaxAcceptors == 1   \* Acceptor objects alive at a time
MaxFds == 2         \* descriptors the host hands out at a time
MaxBytes == 2       \* longest buffer passed to send and receive
MaxPort == 1        \* ports 0 (ephemeral) .. MaxPort
MaxStops == 2       \* stop_listening calls counted per Acceptor

SocketIds   == 1..MaxSockets
AcceptorIds == 1..MaxAcceptors
Fds         == 1..MaxFds
Ports       == 0..MaxPort

\* A descriptor of the host that is not open.
ClosedFd ==
    [open |-> FALSE, v6only |-> FALSE, reuseaddr |-> FALSE, nonblock |-> FALSE,
     connected |-> FALSE, bound |-> <<>>, listening |-> FALSE]

\* One system call as the call record keeps it.
OsCall(name, result) == [name |-> name, result |-> result]

FreeFds(o) == {f \in Fds : ~o.fds[f].open}

\* ::socket(AF_INET6, SOCK_STREAM, IPPROTO_TCP): the lowest free descriptor, or
\* -1.  IPV6_V6ONLY starts at the default of the host.
os_socket(o, ok) ==
    IF ~ok \/ FreeFds(o) = {} THEN [result |-> -1, os |-> o]
    ELSE LET f == CHOOSE f \in FreeFds(o) : \A g \in FreeFds(o) : f <= g
         IN  [result |-> f,
              os |-> [o EXCEPT !.fds[f] = [ClosedFd EXCEPT !.open = TRUE,
                                                           !.v6only = o.v6only_default]]]

\* ::close(fd); closing a descriptor that is not open is EBADF, which the host
\* remembers.
os_close(o, fd) ==
    IF fd \in Fds /\ o.fds[fd].open THEN [o EXCEPT !.fds[fd] = ClosedFd]
    ELSE [o EXCEPT !.ebadf = TRUE]

\* setsockopt(fd, ..., option, value)
os_setsockopt(o, fd, option, value, ok) ==
    IF fd \in Fds /\ o.fds[fd].open /\ ok
    THEN [result |-> 0, os |-> [o EXCEPT !.fds[fd][option] = value]]
    ELSE [result |-> -1, os |-> o]

\* ::connect(fd, sockaddr of the family): an AF_INET6 socket takes a
\* sockaddr_in6 only.
os_connect(o, fd, family, ok) ==
    IF /\ fd \in Fds /\ o.fds[fd].open /\ ok /\ family = "ipv6"
       /\ ~o.fds[fd].connected /\ ~o.fds[fd].listening
    THEN [result |-> 0, os |-> [o EXCEPT !.fds[fd].connected = TRUE]]
    ELSE [result |-> -1, os |-> o]

\* What ::send and ::recv of size bytes can return on fd: -1, or the number of
\* bytes of the one transfer; 0 from ::recv is the orderly close of the peer.
OsSendResults(o, fd, size) ==
    IF fd \in Fds /\ o.fds[fd].open /\ o.fds[fd].connected
    THEN {-1} \cup (1..size) ELSE {-1}
OsRecvResults(o, fd, size) ==
    IF fd \in Fds /\ o.fds[fd].open /\ o.fds[fd].connected
    THEN {-1} \cup (0..size) ELSE {-1}

\* Socket::Socket(): owns_handle_ is assigned by no constructor of socket.cpp
\* and read by no member function; it is left out.
Socket_default == [handle_ |-> 0, is_open_ |-> FALSE]

\* Socket::Socket(native_socket_handle, bool owns): declared in socket.h and
\* defined nowhere; an open Socket that owns the handle.
Socket_from_handle(handle, owns) == [handle_ |-> handle, is_open_ |-> TRUE]

\* create_tcp_socket
create_tcp_socket == Expected(Socket_default)

\* Socket::disconnect
Socket_disconnect(s, o) ==
    IF s.is_open_
    THEN [socket |-> Socket_default, os |-> os_close(o, s.handle_),
          os_calls |-> <<OsCall("close", 0)>>]
    ELSE [socket |-> s, os |-> o, os_calls |-> <<>>]

\* Socket::~Socket
Socket_destroy(s, o) ==
    IF s.is_open_ THEN Socket_disconnect(s, o)
    ELSE [socket |-> s, os |-> o, os_calls |-> <<>>]

\* A move constructor that leaves other as it was.
Socket_move_construct_keeps_source(other) == [this |-> other, other |-> other]

\* Socket::Socket(Socket&& other): the new object and what is left in other.
Socket_move_construct(other) == [this |-> other, other |-> Socket_default]

\* Socket::operator=(Socket&& other) for this != &other
Socket_move_assign(this, other, o) ==
    LET closed == IF this.is_open_ THEN Socket_disconnect(this, o)
                  ELSE [socket |-> this, os |-> o, os_calls |-> <<>>]
    IN  [this |-> other, other |-> Socket_default, os |-> closed.os,
         os_calls |-> closed.os_calls]

\* Socket::connect(addr, port); outcome says which system calls the host lets
\* succeed.
Socket_connect(s, o, addr, outcome) ==
    IF s.is_open_
    THEN LET c == os_connect(o, s.handle_, addr.family, outcome.connect_ok)
         IN  [socket |-> s, os |-> c.os,
              ret |-> IF c.result = -1 THEN connection_failed ELSE success,
              os_calls |-> <<OsCall("connect", c.result)>>]
    ELSE LET created == os_socket(o, outcome.socket_ok)
         IN  IF created.result = -1
             THEN [socket |-> [s EXCEPT !.handle_ = -1], os |-> o,
                   ret |-> connection_failed,
                   os_calls |-> <<OsCall("socket", -1)>>]
             ELSE LET opt == os_setsockopt(created.os, created.result, "v6only",
                                           FALSE, outcome.setsockopt_ok)
                      c   == os_connect(opt.os, created.result, addr.family,
                                        outcome.connect_ok)
                  IN  [socket |-> [handle_ |-> created.result, is_open_ |-> TRUE],
                       os |-> c.os,
                       ret |-> IF c.result = -1 THEN connection_failed ELSE success,
                       os_calls |-> <<OsCall("socket", created.result),
                                      OsCall("setsockopt", opt.result),
                                      OsCall("connect", c.result)>>]

\* Socket::send(data): result is what the one ::send returns.
Socket_send(s, size, result) ==
    IF ~s.is_open_ THEN [ret |-> 0, os_calls |-> <<>>]
    ELSE [ret |-> IF result = -1 THEN 0 ELSE result,
          os_calls |-> <<OsCall("send", result)>>]

\* Socket::receive(buffer): result is what the one ::recv returns.
Socket_receive(s, size, result) ==
    IF ~s.is_open_ THEN [ret |-> 0, os_calls |-> <<>>]
    ELSE [ret |-> IF result = -1 THEN 0 ELSE result,
          os_calls |-> <<OsCall("recv", result)>>]

\* Socket::set_reuse_address(reuse)
Socket_set_reuse_address(s, o, reuse, ok) ==
    IF ~s.is_open_
    THEN [os |-> o, ret |-> invalid_address, os_calls |-> <<>>]
    ELSE LET opt == os_setsockopt(o, s.handle_, "reuseaddr", reuse, ok)
         IN  [os |-> opt.os,
              ret |-> IF opt.result = -1 THEN invalid_address ELSE success,
              os_calls |-> <<OsCall("setsockopt", opt.result)>>]

\* ::bind(fd, sockaddr of the family, port): an AF_INET6 socket takes a
\* sockaddr_in6 only; a port held by another socket is EADDRINUSE; port 0 asks
\* for an ephemeral port.
os_bind(o, fd, family, port, ok) ==
    IF /\ fd \in Fds /\ o.fds[fd].open /\ ok /\ family = "ipv6"
       /\ o.fds[fd].bound = <<>>
       /\ port = 0 \/ ( /\ port \notin o.busy_ports
                        /\ \A g \in Fds : o.fds[g].bound # <<port>> )
    THEN [result |-> 0, os |-> [o EXCEPT !.fds[fd].bound = <<port>>]]
    ELSE [result |-> -1, os |-> o]

\* ::listen(fd, SOMAXCONN)
os_listen(o, fd, ok) ==
    IF fd \in Fds /\ o.fds[fd].open /\ ok /\ ~o.fds[fd].connected
    THEN [result |-> 0, os |-> [o EXCEPT !.fds[fd].listening = TRUE]]
    ELSE [result |-> -1, os |-> o]

\* ::accept(fd, ...): a pending connection gets the lowest free descriptor;
\* without one a non-blocking descriptor gives EAGAIN.
os_accept(o, fd, pending) ==
    IF /\ pending = "connection" /\ fd \in Fds /\ o.fds[fd].listening
       /\ FreeFds(o) # {}
    THEN LET f == CHOOSE f \in FreeFds(o) : \A g \in FreeFds(o) : f <= g
         IN  [result |-> f, errno |-> "none",
              os |-> [o EXCEPT !.fds[f] = [ClosedFd EXCEPT !.open = TRUE,
                                                           !.connected = TRUE]]]
    ELSE [result |-> -1,
          errno |-> IF /\ pending = "none" /\ fd \in Fds
                       /\ o.fds[fd].listening /\ o.fds[fd].nonblock
                    THEN "EAGAIN" ELSE "other",
          os |-> o]

\* Acceptor::Acceptor()
Acceptor_default == [listen_socket_ |-> Socket_default, is_listening_ |-> FALSE]

\* IPAddress{}: the default bind_addr of Acceptor::listen holds the first
\* alternative of the variant, ipv4_address() = 0.0.0.0.
DefaultBindAddress == IPAddressV4(ipv4_address(<<0, 0, 0, 0>>))

\* Acceptor::enable_dual_stack(enable)
Acceptor_enable_dual_stack(a, o, enable, ok) ==
    IF ~a.listen_socket_.is_open_
    THEN [os |-> o, ret |-> invalid_address, os_calls |-> <<>>]
    ELSE LET opt == os_setsockopt(o, a.listen_socket_.handle_, "v6only",
                                  ~enable, ok)
         IN  [os |-> opt.os,
              ret |-> IF opt.result = -1 THEN invalid_address ELSE success,
              os_calls |-> <<OsCall("setsockopt", opt.result)>>]

\* Acceptor::stop_listening
Acceptor_stop_listening(a, o) ==
    IF a.is_listening_
    THEN LET closed == Socket_disconnect(a.listen_socket_, o)
         IN  [acceptor |-> [listen_socket_ |-> closed.socket,
                            is_listening_ |-> FALSE],
              os |-> closed.os, os_calls |-> closed.os_calls]
    ELSE [acceptor |-> a, os |-> o, os_calls |-> <<>>]

\* Acceptor::~Acceptor, and then the destructor of the member listen_socket_
Acceptor_destroy(a, o) ==
    LET stopped == IF a.is_listening_ THEN Acceptor_stop_listening(a, o)
                   ELSE [acceptor |-> a, os |-> o, os_calls |-> <<>>]
        member  == Socket_destroy(stopped.acceptor.listen_socket_, stopped.os)
    IN  [os |-> member.os, os_calls |-> stopped.os_calls \o member.os_calls]

\* Acceptor::listen(port, bind_addr); outcome says which system calls the host
\* lets succeed.  bind_addr.is_ipv4() || bind_addr.is_ipv6() holds of every
\* IPAddress, so the sockaddr is always made by ip_to_sockaddr.
Acceptor_listen(a, o, port, bind_addr, outcome) ==
    LET socket_result == create_tcp_socket
        moved == Socket_move_assign(a.listen_socket_, socket_result.value, o)
        a1    == [a EXCEPT !.listen_socket_ = moved.this]
        reuse == Socket_set_reuse_address(a1.listen_socket_, moved.os, TRUE,
                                          outcome.reuse_ok)
        dual  == Acceptor_enable_dual_stack(a1, reuse.os, TRUE, outcome.v6only_ok)
        bound == os_bind(dual.os, a1.listen_socket_.handle_, bind_addr.family,
                         port, outcome.bind_ok)
        heard == os_listen(bound.os, a1.listen_socket_.handle_, outcome.listen_ok)
        calls1 == moved.os_calls \o reuse.os_calls
        calls2 == calls1 \o dual.os_calls
        calls3 == calls2 \o <<OsCall("bind", bound.result)>>
        calls4 == calls3 \o <<OsCall("listen", heard.result)>>
    IN  IF ~socket_result.has_value
        THEN [acceptor |-> a, os |-> o, ret |-> socket_result.error,
              os_calls |-> <<>>]
        ELSE IF reuse.ret # success
        THEN [acceptor |-> a1, os |-> reuse.os, ret |-> reuse.ret,
              os_calls |-> calls1]
        ELSE IF dual.ret # success
        THEN [acceptor |-> a1, os |-> dual.os, ret |-> dual.ret,
              os_calls |-> calls2]
        ELSE IF bound.result = -1
        THEN [acceptor |-> a1, os |-> bound.os, ret |-> bind_failed,
              os_calls |-> calls3]
        ELSE IF heard.result = -1
        THEN [acceptor |-> a1, os |-> heard.os, ret |-> listen_failed,
              os_calls |-> calls4]
        ELSE [acceptor |-> [a1 EXCEPT !.is_listening_ = TRUE], os |-> heard.os,
              ret |-> success, os_calls |-> calls4]

\* An Acceptor::accept that asks the host without looking at is_listening_.
Acceptor_accept_unguarded(a, o, pending) ==
    LET new_socket_handle == os_accept(o, a.listen_socket_.handle_, pending)
    IN  [os |-> new_socket_handle.os,
         ret |-> IF new_socket_handle.result = -1
                 THEN Unexpected(IF new_socket_handle.errno = "EAGAIN"
                                 THEN timeout ELSE accept_failed)
                 ELSE Expected(Socket_from_handle(new_socket_handle.result, TRUE)),
         os_calls |-> <<OsCall("accept", new_socket_handle.result)>>]

\* Acceptor::accept; pending says whether a connection waits at the host.
Acceptor_accept(a, o, pending) ==
    IF ~a.is_listening_
    THEN [os |-> o, ret |-> Unexpected(invalid_address), os_calls |-> <<>>]
    ELSE LET new_socket_handle == os_accept(o, a.listen_socket_.handle_, pending)
         IN  [os |-> new_socket_handle.os,
              ret |-> IF new_socket_handle.result = -1
                      THEN Unexpected(IF new_socket_handle.errno = "EAGAIN"
                                      THEN timeout ELSE accept_failed)
                      ELSE Expected(Socket_from_handle(new_socket_handle.result,
                                                       TRUE)),
              os_calls |-> <<OsCall("accept", new_socket_handle.result)>>]

\* create_acceptor(port): on failure the local Acceptor is destroyed, on
\* success it is moved into the result.
create_acceptor(o, port, outcome) ==
    LET result == Acceptor_listen(Acceptor_default, o, port, DefaultBindAddress,
                                  outcome)
        gone   == Acceptor_destroy(result.acceptor, result.os)
    IN  IF result.ret # success
        THEN [os |-> gone.os, ret |-> Unexpected(result.ret),
              os_calls |-> result.os_calls \o gone.os_calls]
        ELSE [os |-> result.os, ret |-> Expected(result.acceptor),
              os_calls |-> result.os_calls]

\* What the host may let succeed during connect and during listen; a call
\* that is not made, because an earlier one was refused, counts as refused.
ConnectOutcomes ==
    {outcome \in [socket_ok : BOOLEAN, setsockopt_ok : BOOLEAN,
                  connect_ok : BOOLEAN] :
         ~outcome.socket_ok => (~outcome.setsockopt_ok /\ ~outcome.connect_ok)}
ListenOutcomes ==
    {outcome \in [reuse_ok : BOOLEAN, v6only_ok : BOOLEAN, bind_ok : BOOLEAN,
                  listen_ok : BOOLEAN] :
         /\ ~outcome.reuse_ok => ~outcome.v6only_ok
         /\ ~outcome.v6only_ok => ~outcome.bind_ok
         /\ ~outcome.bind_ok => ~outcome.listen_ok}

\* The addresses connect and listen are called with.
PeerAddresses ==
    { IPAddressV4(ipv4_address(<<192, 0, 0, 1>>)),
      IPAddressV6(ipv6_address(<<8193, 3512, 0, 0, 0, 0, 0, 1>>)) }
BindAddresses ==
    { DefaultBindAddress, IPAddressV6(ipv6_address(<<0, 0, 0, 0, 0, 0, 0, 0>>)) }

\* No call has been made yet.
NoCall == [op |-> "none", arg |-> <<>>, ret |-> <<>>, os_calls |-> <<>>]

\* Nothing has been asked of an Acceptor yet.
NoHistory == [listen_asked |-> FALSE, stops |-> 0]

\* Socket socket;  (also the Socket that create_tcp_socket returns)
SocketCtor ==
    \E i \in SocketIds :
        /\ sockets[i] = <<>>
        /\ sockets' = [sockets EXCEPT ![i] = <<Socket_default>>]
        /\ io' = [op |-> "Socket", arg |-> [this |-> i], ret |-> <<>>,
                  os_calls |-> <<>>]
        /\ UNCHANGED <<serverVars, auxVars, asyncVars, tlsVars, addrVars, acceptors, os, hist>>

\* The Socket goes out of scope.
SocketDtor ==
    \E i \in SocketIds :
        /\ sockets[i] # <<>>
        /\ LET gone == Socket_destroy(sockets[i][1], os)
           IN  /\ sockets' = [sockets EXCEPT ![i] = <<>>]
               /\ os' = gone.os
               /\ io' = [op |-> "~Socket", arg |-> [this |-> i], ret |-> <<>>,
                         os_calls |-> gone.os_calls]
        /\ UNCHANGED <<serverVars, auxVars, asyncVars, tlsVars, addrVars, acceptors, hist>>

\* Socket socket2 = std::move(socket1);
SocketMoveCtor ==
    \E i \in SocketIds, j \in SocketIds :
        /\ sockets[i] = <<>> /\ sockets[j] # <<>>
        /\ LET moved == Socket_move_construct(sockets[j][1])
           IN  /\ sockets' = [sockets EXCEPT ![i] = <<moved.this>>,
                                             ![j] = <<moved.other>>]
               /\ io' = [op |-> "move_construct", arg |-> [this |-> i, other |-> j],
                         ret |-> <<>>, os_calls |-> <<>>]
        /\ UNCHANGED <<serverVars, auxVars, asyncVars, tlsVars, addrVars, acceptors, os, hist>>

\* socket2 = std::move(socket1);  (this == &other changes nothing)
SocketMoveAssign ==
    \E i \in SocketIds, j \in SocketIds :
        /\ sockets[i] # <<>> /\ sockets[j] # <<>>
        /\ IF i = j
           THEN /\ io' = [op |-> "move_assign", arg |-> [this |-> i, other |-> j],
                          ret |-> <<>>, os_calls |-> <<>>]
                /\ UNCHANGED <<serverVars, auxVars, asyncVars, sockets, os>>
           ELSE LET moved == Socket_move_assign(sockets[i][1], sockets[j][1], os)
                IN  /\ sockets' = [sockets EXCEPT ![i] = <<moved.this>>,
                                                  ![j] = <<moved.other>>]
                    /\ os' = moved.os
                    /\ io' = [op |-> "move_assign",
                              arg |-> [this |-> i, other |-> j],
                              ret |-> <<>>, os_calls |-> moved.os_calls]
        /\ UNCHANGED <<serverVars, auxVars, asyncVars, tlsVars, addrVars, acceptors, hist>>

\* socket.connect(addr, port)
SocketConnect ==
    \E i \in SocketIds, addr \in PeerAddresses, outcome \in ConnectOutcomes :
        /\ sockets[i] # <<>>
        /\ LET done == Socket_connect(sockets[i][1], os, addr, outcome)
           IN  /\ sockets' = [sockets EXCEPT ![i] = <<done.socket>>]
               /\ os' = done.os
               /\ io' = [op |-> "connect", arg |-> [this |-> i, addr |-> addr],
                         ret |-> done.ret, os_calls |-> done.os_calls]
        /\ UNCHANGED <<serverVars, auxVars, asyncVars, tlsVars, addrVars, acceptors, hist>>

\* socket.disconnect()
SocketDisconnect ==
    \E i \in SocketIds :
        /\ sockets[i] # <<>>
        /\ LET done == Socket_disconnect(sockets[i][1], os)
           IN  /\ sockets' = [sockets EXCEPT ![i] = <<done.socket>>]
               /\ os' = done.os
               /\ io' = [op |-> "disconnect", arg |-> [this |-> i], ret |-> <<>>,
                         os_calls |-> done.os_calls]
        /\ UNCHANGED <<serverVars, auxVars, asyncVars, tlsVars, addrVars, acceptors, hist>>

\* socket.send(data)
SocketSend ==
    \E i \in SocketIds, size \in 1..MaxBytes :
        /\ sockets[i] # <<>>
        /\ \E result \in OsSendResults(os, sockets[i][1].handle_, size) :
               LET done == Socket_send(sockets[i][1], size, result)
               IN  io' = [op |-> "send", arg |-> [this |-> i, size |-> size],
                          ret |-> done.ret, os_calls |-> done.os_calls]
        /\ UNCHANGED <<serverVars, auxVars, asyncVars, tlsVars, addrVars, sockets, acceptors, os, hist>>

\* socket.receive(buffer)
SocketReceive ==
    \E i \in SocketIds, size \in 1..MaxBytes :
        /\ sockets[i] # <<>>
        /\ \E result \in OsRecvResults(os, sockets[i][1].handle_, size) :
               LET done == Socket_receive(sockets[i][1], size, result)
               IN  io' = [op |-> "receive", arg |-> [this |-> i, size |-> size],
                          ret |-> done.ret, os_calls |-> done.os_calls]
        /\ UNCHANGED <<serverVars, auxVars, asyncVars, tlsVars, addrVars, sockets, acceptors, os, hist>>

\* Acceptor acceptor;
AcceptorCtor ==
    \E i \in AcceptorIds :
        /\ acceptors[i] = <<>>
        /\ acceptors' = [acceptors EXCEPT ![i] = <<Acceptor_default>>]
        /\ hist' = [hist EXCEPT ![i] = NoHistory]
        /\ io' = [op |-> "Acceptor", arg |-> [this |-> i], ret |-> <<>>,
                  os_calls |-> <<>>]
        /\ UNCHANGED <<serverVars, auxVars, asyncVars, tlsVars, addrVars, sockets, os>>

\* The Acceptor goes out of scope.
AcceptorDtor ==
    \E i \in AcceptorIds :
        /\ acceptors[i] # <<>>
        /\ LET gone == Acceptor_destroy(acceptors[i][1], os)
           IN  /\ acceptors' = [acceptors EXCEPT ![i] = <<>>]
               /\ os' = gone.os
               /\ io' = [op |-> "~Acceptor", arg |-> [this |-> i], ret |-> <<>>,
                         os_calls |-> gone.os_calls]
        /\ hist' = [hist EXCEPT ![i] = NoHistory]
        /\ UNCHANGED <<serverVars, auxVars, asyncVars, tlsVars, addrVars, sockets>>

\* acceptor.listen(port, bind_addr)
AcceptorListen ==
    \E i \in AcceptorIds, port \in Ports, bind_addr \in BindAddresses,
       outcome \in ListenOutcomes :
        /\ acceptors[i] # <<>>
        /\ LET done == Acceptor_listen(acceptors[i][1], os, port, bind_addr, outcome)
           IN  /\ acceptors' = [acceptors EXCEPT ![i] = <<done.acceptor>>]
               /\ os' = done.os
               /\ io' = [op |-> "listen",
                         arg |-> [this |-> i, before |-> acceptors[i][1],
                                  port |-> port, bind_addr |-> bind_addr,
                                  outcome |-> outcome],
                         ret |-> done.ret, os_calls |-> done.os_calls]
        /\ hist' = [hist EXCEPT ![i] =
                        [listen_asked |-> /\ port \notin os.busy_ports
                                          /\ \A f \in DOMAIN outcome : outcome[f],
                         stops |-> 0]]
        /\ UNCHANGED <<serverVars, auxVars, asyncVars, tlsVars, addrVars, sockets>>

\* acceptor.stop_listening()
AcceptorStopListening ==
    \E i \in AcceptorIds :
        /\ acceptors[i] # <<>>
        /\ LET done == Acceptor_stop_listening(acceptors[i][1], os)
           IN  /\ acceptors' = [acceptors EXCEPT ![i] = <<done.acceptor>>]
               /\ os' = done.os
               /\ io' = [op |-> "stop_listening",
                         arg |-> [this |-> i, before |-> acceptors[i][1]],
                         ret |-> <<>>, os_calls |-> done.os_calls]
        /\ hist' = [hist EXCEPT ![i] =
                        [listen_asked |-> FALSE,
                         stops |-> IF hist[i].stops < MaxStops
                                   THEN hist[i].stops + 1 ELSE MaxStops]]
        /\ UNCHANGED <<serverVars, auxVars, asyncVars, tlsVars, addrVars, sockets>>

\* acceptor.accept(); an accepted Socket goes to a free Socket object of the
\* caller.
AcceptorAccept ==
    \E i \in AcceptorIds, pending \in {"connection", "none", "reset"} :
        /\ acceptors[i] # <<>>
        /\ LET done == Acceptor_accept(acceptors[i][1], os, pending)
           IN  /\ os' = done.os
               /\ io' = [op |-> "accept",
                         arg |-> [this |-> i, before |-> acceptors[i][1],
                                  pending |-> pending],
                         ret |-> done.ret, os_calls |-> done.os_calls]
               /\ IF done.ret.has_value
                  THEN \E k \in SocketIds :
                           /\ sockets[k] = <<>>
                           /\ sockets' = [sockets EXCEPT ![k] = <<done.ret.value>>]
                  ELSE UNCHANGED sockets
        /\ UNCHANGED <<serverVars, auxVars, asyncVars, tlsVars, addrVars, acceptors, hist>>

\* acceptor.enable_dual_stack(enable)
AcceptorEnableDualStack ==
    \E i \in AcceptorIds, enable \in BOOLEAN, ok \in BOOLEAN :
        /\ acceptors[i] # <<>>
        /\ LET done == Acceptor_enable_dual_stack(acceptors[i][1], os, enable, ok)
           IN  /\ os' = done.os
               /\ io' = [op |-> "enable_dual_stack",
                         arg |-> [this |-> i, enable |-> enable],
                         ret |-> done.ret, os_calls |-> done.os_calls]
        /\ UNCHANGED <<serverVars, auxVars, asyncVars, tlsVars, addrVars, sockets, acceptors, hist>>

\* auto acceptor = create_acceptor(port); the Acceptor of a successful result
\* goes to a free Acceptor object of the caller.
CreateAcceptor ==
    \E port \in Ports, outcome \in ListenOutcomes :
        LET done == create_acceptor(os, port, outcome)
        IN  /\ os' = done.os
            /\ io' = [op |-> "create_acceptor",
                      arg |-> [port |-> port, outcome |-> outcome],
                      ret |-> done.ret, os_calls |-> done.os_calls]
            /\ IF done.ret.has_value
               THEN \E k \in AcceptorIds :
                        /\ acceptors[k] = <<>>
                        /\ acceptors' = [acceptors EXCEPT ![k] = <<done.ret.value>>]
                        /\ hist' = [hist EXCEPT ![k] =
                                        [listen_asked |-> TRUE, stops |-> 0]]
               ELSE UNCHANGED <<serverVars, auxVars, asyncVars, acceptors, hist>>
            /\ UNCHANGED <<serverVars, auxVars, asyncVars, tlsVars, addrVars, sockets>>

\* No Socket and no Acceptor constructed, no call made.
NoObjects ==
    /\ sockets = [i \in SocketIds |-> <<>>]
    /\ acceptors = [i \in AcceptorIds |-> <<>>]
    /\ io = NoCall
    /\ hist = [i \in AcceptorIds |-> NoHistory]

\* The hosts at the start: every descriptor free, IPV6_V6ONLY on or off by
\* default, some of the ports held by others.
Hosts(ports) ==
    [fds : {[f \in Fds |-> ClosedFd]}, v6only_default : BOOLEAN,
     busy_ports : SUBSET ports, ebadf : {FALSE}]

\* The transport model at rest.
NetPark ==
    /\ NoObjects
    /\ os = [fds |-> [f \in Fds |-> ClosedFd], v6only_default |-> FALSE,
             busy_ports |-> {}, ebadf |-> FALSE]

(***************************************************************************)
(* Asynchronous server: src/src/network/async_connection_manager.{h,cpp}   *)
(*                                                                         *)
(* The threads are the two accept loops, the worker loop and the threads   *)
(* of the application that call the public member functions.  A step is    *)
(* what a thread does between two points where another thread can run:     *)
(* a critical section under one mutex, or one call on a socket.            *)
(* close_connection is cut in two, with the mutex held in between, because *)
(* it calls disconnect on the socket inside its critical section.          *)
(***************************************************************************)

\* Bounds of the model.
MaxConnections == 2     \* connections the accept loops take in
MaxManaged == 1         \* connections create_async_connection opens

ConnectionIds == 1..MaxConnections
ManagedIds    == 1..MaxManaged
AppThreads    == {"app1", "app2"}

\* What has become of a connection: not accepted yet, in pending_connections_,
\* in the locals of the worker, a ConnectionState in active_connections_, or
\* erased from it, which destroys the ConnectionState and its Socket.
ConnectionStates == {"none", "queued", "local", "stored", "destroyed"}

IdleThread == [pc |-> "idle", connection_id |-> 0]

\* AsyncDualStackServer(port), set_connection_handler and start(): nothing
\* accepted, the worker waiting.
ServerInit ==
    /\ server \in [connection_counter_ : {0},
                   pending_connections_ : {<<>>},
                   active_connections_ : {[c \in ConnectionIds |-> "none"]},
                   connection_handler_ : BOOLEAN,
                   worker : {[pc |-> "wait", connection_id |-> 0]}]
    /\ manager = [connection_counter_ |-> 0,
                  active_connections_ |-> [c \in ManagedIds |-> "none"]]
    /\ threads = [t \in AppThreads |-> IdleThread]

\* The asynchronous server at rest.
AsyncPark ==
    /\ server = [connection_counter_ |-> 0,
                 pending_connections_ |-> <<>>,
                 active_connections_ |-> [c \in ConnectionIds |-> "none"],
                 connection_handler_ |-> FALSE,
                 worker |-> [pc |-> "wait", connection_id |-> 0]]
    /\ manager = [connection_counter_ |-> 0,
                  active_connections_ |-> [c \in ManagedIds |-> "none"]]
    /\ threads = [t \in AppThreads |-> IdleThread]

\* Whether a thread holds active_connections_mutex_ of the server, or
\* connections_mutex_ of the manager.
ServerMutexHeld  == \E t \in AppThreads : threads[t].pc = "server_closing"
ManagerMutexHeld == \E t \in AppThreads : threads[t].pc = "closing"

\* handle_ipv4_connections / handle_ipv6_connections, one turn of the loop
\* in which accept returns a socket: a fresh id, and the socket is pushed
\* under pending_mutex_.
HandleConnections ==
    /\ server.connection_counter_ < MaxConnections
    /\ LET id == server.connection_counter_ + 1
       IN  server' = [server EXCEPT
               !.connection_counter_ = id,
               !.pending_connections_ = Append(@, id),
               !.active_connections_[id] = "queued"]
    /\ UNCHANGED <<serverVars, auxVars, tlsVars, addrVars, netVars, manager, threads>>

\* async_worker_loop: the front of the queue is moved out under pending_mutex_.
WorkerPop ==
    /\ server.worker.pc = "wait"
    /\ server.pending_connections_ # <<>>
    /\ LET id == Head(server.pending_connections_)
       IN  server' = [server EXCEPT
               !.pending_connections_ = Tail(@),
               !.active_connections_[id] = "local",
               !.worker = [pc |-> "store", connection_id |-> id]]
    /\ UNCHANGED <<serverVars, auxVars, tlsVars, addrVars, netVars, manager, threads>>

\* handle_client_async, first part: the ConnectionState is built and put in
\* active_connections_ under active_connections_mutex_.
HandleClientStore ==
    /\ server.worker.pc = "store"
    /\ ~ServerMutexHeld
    /\ server' = [server EXCEPT
           !.active_connections_[server.worker.connection_id] = "stored",
           !.worker.pc = "stored"]
    /\ UNCHANGED <<serverVars, auxVars, tlsVars, addrVars, netVars, manager, threads>>

\* handle_client_async, second part: with no mutex held, the handler is called
\* with a reference to the socket looked up in active_connections_; with no
\* handler set the worker goes back to its loop.
HandleClientCall ==
    /\ server.worker.pc = "stored"
    /\ server' = [server EXCEPT
           !.worker = IF server.connection_handler_
                      THEN [@ EXCEPT !.pc = "handler"]
                      ELSE [pc |-> "wait", connection_id |-> 0]]
    /\ UNCHANGED <<serverVars, auxVars, tlsVars, addrVars, netVars, manager, threads>>

\* The handler returns.
HandlerReturn ==
    /\ server.worker.pc = "handler"
    /\ server' = [server EXCEPT !.worker = [pc |-> "wait", connection_id |-> 0]]
    /\ UNCHANGED <<serverVars, auxVars, tlsVars, addrVars, netVars, manager, threads>>

\* AsyncDualStackServer::close_connection, up to the call of disconnect: the
\* mutex is taken and the entry found.  A call that finds no entry changes
\* nothing.
ServerCloseConnection(t) ==
    /\ threads[t].pc = "idle"
    /\ ~ServerMutexHeld
    /\ \E id \in ConnectionIds :
           /\ server.active_connections_[id] = "stored"
           /\ threads' = [threads EXCEPT
                  ![t] = [pc |-> "server_closing", connection_id |-> id]]
    /\ UNCHANGED <<serverVars, auxVars, tlsVars, addrVars, netVars, server, manager>>

\* AsyncDualStackServer::close_connection, the rest: the entry is erased and
\* the mutex released.
ServerCloseErase(t) ==
    /\ threads[t].pc = "server_closing"
    /\ server' = [server EXCEPT
           !.active_connections_[threads[t].connection_id] = "destroyed"]
    /\ threads' = [threads EXCEPT ![t] = IdleThread]
    /\ UNCHANGED <<serverVars, auxVars, tlsVars, addrVars, netVars, manager>>

\* AsyncConnectionManager::create_async_connection: a connected socket in a
\* ConnectionState, stored under connections_mutex_.
CreateAsyncConnection(t) ==
    /\ threads[t].pc = "idle"
    /\ ~ManagerMutexHeld
    /\ manager.connection_counter_ < MaxManaged
    /\ LET id == manager.connection_counter_ + 1
       IN  manager' = [manager EXCEPT
               !.connection_counter_ = id,
               !.active_connections_[id] = "stored"]
    /\ UNCHANGED <<serverVars, auxVars, tlsVars, addrVars, netVars, server, threads>>

\* AsyncConnectionManager::get_connection as send_galaxycdn_message and
\* receive_galaxycdn_message call it: under connections_mutex_ the entry is
\* looked up, and the pointer to the ConnectionState is what the caller has
\* once the mutex is released.  A call that finds no entry returns false.
GetConnection(t) ==
    /\ threads[t].pc = "idle"
    /\ ~ManagerMutexHeld
    /\ \E id \in ManagedIds :
           /\ manager.active_connections_[id] = "stored"
           /\ threads' = [threads EXCEPT
                  ![t] = [pc |-> "has_conn", connection_id |-> id]]
    /\ UNCHANGED <<serverVars, auxVars, tlsVars, addrVars, netVars, server, manager>>

\* send_galaxycdn_message / receive_galaxycdn_message: conn->socket->is_open()
\* and the send or receive calls, through the pointer and with no mutex held.
SocketTransfer(t) ==
    /\ threads[t].pc = "has_conn"
    /\ threads' = [threads EXCEPT ![t].pc = "transfer"]
    /\ UNCHANGED <<serverVars, auxVars, tlsVars, addrVars, netVars, server, manager>>

\* The send or receive returns, and with it the member function.
SocketTransferReturn(t) ==
    /\ threads[t].pc = "transfer"
    /\ threads' = [threads EXCEPT ![t] = IdleThread]
    /\ UNCHANGED <<serverVars, auxVars, tlsVars, addrVars, netVars, server, manager>>

\* AsyncConnectionManager::close_connection, up to the call of disconnect.
CloseConnection(t) ==
    /\ threads[t].pc = "idle"
    /\ ~ManagerMutexHeld
    /\ \E id \in ManagedIds :
           /\ manager.active_connections_[id] = "stored"
           /\ threads' = [threads EXCEPT
                  ![t] = [pc |-> "closing", connection_id |-> id]]
    /\ UNCHANGED <<serverVars, auxVars, tlsVars, addrVars, netVars, server, manager>>

\* AsyncConnectionManager::close_connection, the rest: the entry is erased
\* and the mutex released.
CloseErase(t) ==
    /\ threads[t].pc = "closing"
    /\ manager' = [manager EXCEPT
           !.active_connections_[threads[t].connection_id] = "destroyed"]
    /\ threads' = [threads EXCEPT ![t] = IdleThread]
    /\ UNCHANGED <<serverVars, auxVars, tlsVars, addrVars, netVars, server>>

(***************************************************************************)
(* Cryptographic helpers and bearer tokens: tls_protocol.cpp               *)
(*                                                                         *)
(* A byte string is a sequence of small naturals.  The calls of this part  *)
(* are pure functions; call holds the call in progress and its result.     *)
(***************************************************************************)

\* Bounds of the model.
MaxByte == 1        \* bytes are 0..MaxByte
MaxKeyLen == 2      \* longest byte string passed as a key or a message
MaxTime == 2        \* the clock reads 0..MaxTime

Bytes == 0..MaxByte
ByteStrings == {<<>>} \cup SeqsUpTo(Bytes, MaxKeyLen)

\* std::hash<std::string> is fixed by the implementation and reads nothing
\* but the characters; the model takes a polynomial hash of 16 bits.
HASH_MODULUS == 65536

RECURSIVE StdHash(_)
StdHash(combined) ==
    IF combined = <<>> THEN 7
    ELSE (31 * StdHash(SubSeq(combined, 1, Len(combined) - 1))
          + combined[Len(combined)] + 1) % HASH_MODULUS

\* hash_value >> shift
RECURSIVE ShiftRight(_, _)
ShiftRight(hash_value, shift) ==
    IF shift = 0 \/ hash_value = 0 THEN hash_value
    ELSE ShiftRight(hash_value \div 2, shift - 1)

\* A vector of size bytes whose byte i is (hash_value >> ((i + offset) % 32))
\* & 0xFF.
HashFill(hash_value, size, offset) ==
    [i \in 1..size |-> ShiftRight(hash_value, ((i - 1) + offset) % 32) % 256]

\* pqc::HybridCrypto::combine_keys
combine_keys(pqc_key, classical_key) == pqc_key \o classical_key

\* pqc::HybridCrypto::split_keys: the first half and the rest.
split_keys(combined_key) ==
    LET half_size == Len(combined_key) \div 2
    IN  <<SubSeq(combined_key, 1, half_size),
          SubSeq(combined_key, half_size + 1, Len(combined_key))>>

\* The size of a Dilithium3 signature.
DILITHIUM3_SIGNATURE_SIZE == 4928

\* pqc::DilithiumSignature::generate_keypair: two independent random vectors;
\* the model draws one byte for each.
DilithiumKeyPairs == [public_key : SeqsUpTo(Bytes, 1), private_key : SeqsUpTo(Bytes, 1)]

\* pqc::DilithiumSignature::sign: 4928 bytes filled from the hash of message
\* and private key; the signature is kept as its size and that hash value.
Dilithium_sign(message, private_key) ==
    [size |-> DILITHIUM3_SIGNATURE_SIZE,
     hash_value |-> StdHash(message \o private_key)]

\* pqc::DilithiumSignature::verify
Dilithium_verify(message, signature, public_key) ==
    signature.size = DILITHIUM3_SIGNATURE_SIZE

\* TLSSession::derive_keys: four vectors filled from the hash of the master
\* secret.
derive_keys(session) ==
    LET hash_value == StdHash(session.master_secret_)
    IN  [client_write_key |-> HashFill(hash_value, 32, 0),
         server_write_key |-> HashFill(hash_value, 32, 16),
         client_write_iv  |-> HashFill(hash_value, 16, 32),
         server_write_iv  |-> HashFill(hash_value, 16, 48)]

\* a ^ b on two bytes
RECURSIVE Xor(_, _)
Xor(a, b) ==
    IF a = 0 /\ b = 0 THEN 0
    ELSE ((a + b) % 2) + 2 * Xor(a \div 2, b \div 2)

\* AES256Encryption::encrypt: the sizes of key and iv are checked, then each
\* byte of the plaintext is combined with a byte of the key.
AES256Encryption_encrypt(plaintext, key, iv) ==
    IF Len(key) < 32 THEN Unexpected("invalid_argument")
    ELSE IF Len(iv) < 16 THEN Unexpected("invalid_argument")
    ELSE Expected([i \in 1..Len(plaintext) |->
                      Xor(plaintext[i], key[((i - 1) % Len(key)) + 1])])

\* TLSSecureSocket::secure_send: the size of the encrypted data, or the
\* exception thrown.
secure_send_with_any_session(socket, data) ==
    IF socket.session_ = <<>> THEN Unexpected("runtime_error")
    ELSE LET keys == derive_keys(socket.session_[1])
             encrypted_data == AES256Encryption_encrypt(
                                   data, keys.client_write_key, keys.client_write_iv)
         IN  IF encrypted_data.has_value
             THEN Expected(Len(encrypted_data.value))
             ELSE encrypted_data

secure_send(socket, data) ==
    IF ~socket.tls_negotiated_ \/ socket.session_ = <<>>
    THEN Unexpected("runtime_error")
    ELSE LET keys == derive_keys(socket.session_[1])
             encrypted_data == AES256Encryption_encrypt(
                                   data, keys.client_write_key, keys.client_write_iv)
         IN  IF encrypted_data.has_value
             THEN Expected(Len(encrypted_data.value))
             ELSE encrypted_data

\* TLSSecureSocket::secure_receive
secure_receive(socket, buffer) ==
    IF ~socket.tls_negotiated_ \/ socket.session_ = <<>>
    THEN Unexpected("runtime_error")
    ELSE Expected(0)

\* The data secure_send is given: of every size up to MaxKeyLen, every byte
\* the same.
SendPayloads ==
    {<<>>} \cup {[i \in 1..size |-> byte] : size \in 1..MaxKeyLen, byte \in Bytes}

\* TLSSecureSocket::secure_send: throws before a handshake; after one, the
\* four keys are derived into the local keys, used, and destroyed at the
\* return as they are.  call keeps the data, the socket as it was and the
\* result.
SecureSend ==
    /\ heap.alive
    /\ heap' = [heap EXCEPT !.released =
                   IF ~sock.tls_negotiated_ \/ sock.session_ = <<>> THEN {}
                   ELSE LET keys == derive_keys(sock.session_[1])
                        IN  { Block("client_write_key", keys.client_write_key),
                              Block("server_write_key", keys.server_write_key),
                              Block("client_write_iv", keys.client_write_iv),
                              Block("server_write_iv", keys.server_write_iv) }]
    /\ \E data \in SendPayloads :
           call' = [op  |-> "secure_send",
                    arg |-> [data |-> data, socket |-> sock],
                    ret |-> secure_send(sock, data)]
    /\ UNCHANGED <<serverVars, auxVars, asyncVars, config, client_suites, hello, srv, sock, netVars>>

\* The buffers secure_receive is given: it reads none of their bytes, so one
\* buffer of each size.
ReceiveBuffers == {[i \in 1..size |-> 0] : size \in 0..MaxKeyLen}

\* TLSSecureSocket::secure_receive into a buffer of some size.
SecureReceive ==
    /\ heap.alive
    /\ \E buffer \in ReceiveBuffers :
           call' = [op  |-> "secure_receive",
                    arg |-> [data |-> buffer, socket |-> sock],
                    ret |-> secure_receive(sock, buffer)]
    /\ heap' = [heap EXCEPT !.released = {}]
    /\ UNCHANGED <<serverVars, auxVars, asyncVars, config, client_suites, hello, srv, sock, netVars>>

\* TLSSecureSocket::perform_handshake when std::random_device throws: in the
\* constructor of TLSSession, before session_ is assigned, or in generate_key,
\* after it.  The exception is caught and false returned; tls_negotiated_ is
\* not assigned.
PerformHandshakeFails ==
    /\ heap.alive
    /\ \E thrown_in \in {"TLSSession", "generate_key"} :
           /\ call' = [op |-> "perform_handshake", arg |-> thrown_in, ret |-> FALSE]
           /\ IF thrown_in = "TLSSession"
              THEN /\ sock' = sock
                   /\ heap' = [heap EXCEPT !.released = {}]
              ELSE /\ sock' = [sock EXCEPT !.session_ =
                                  Some(TLSSession(TLS_1_3_PQC,
                                                  TLS_KYBER768_AES256_GCM_SHA384))]
                   /\ heap' = [heap EXCEPT !.released =
                                  IF sock.session_ = <<>> THEN {}
                                  ELSE TLSSession_destroy(sock.session_[1])]
    /\ UNCHANGED <<serverVars, auxVars, asyncVars, config, client_suites, hello, srv, netVars>>

\* ~TLSSecureSocket, implicit: session_ is destroyed and with it the session.
\* sock keeps the value the members had when the object was destroyed.
DestroySecureSocket ==
    /\ heap.alive
    /\ heap' = [alive |-> FALSE,
                released |-> IF sock.session_ = <<>> THEN {}
                             ELSE TLSSession_destroy(sock.session_[1])]
    /\ UNCHANGED <<serverVars, auxVars, asyncVars, config, client_suites, hello, srv, sock, call, netVars>>

\* split_keys(combine_keys(a, b))
SplitCombined ==
    /\ call.op = "idle"
    /\ \E a \in ByteStrings, b \in ByteStrings :
           call' = [op |-> "split_combine", arg |-> <<a, b>>,
                    ret |-> split_keys(combine_keys(a, b))]
    /\ UNCHANGED <<serverVars, auxVars, asyncVars, tlsVars, netVars>>

\* Two key pairs are generated, different ones; a message is signed with the private key of
\* one and a message is verified against the public key of one.
DilithiumSignVerify ==
    /\ call.op = "idle"
    /\ \E keys \in [1..2 -> DilithiumKeyPairs], signer \in 1..2, verifier \in 1..2,
          message \in SeqsUpTo(Bytes, 1), checked \in SeqsUpTo(Bytes, 1) :
           LET signature == Dilithium_sign(message, keys[signer].private_key)
           IN  /\ keys[1].public_key # keys[2].public_key
               /\ keys[1].private_key # keys[2].private_key
               /\ call' = [op |-> "sign_verify",
                           arg |-> [keys |-> keys, signer |-> signer,
                                    verifier |-> verifier, message |-> message,
                                    checked |-> checked],
                           ret |-> [signature |-> signature,
                                    verified |-> Dilithium_verify(
                                        checked, signature,
                                        keys[verifier].public_key)]]
    /\ UNCHANGED <<serverVars, auxVars, asyncVars, tlsVars, netVars>>

\* Two sessions negotiated to suites of their own store the same pre-master
\* secret and derive their keys.
DeriveKeys ==
    /\ call.op = "idle"
    /\ \E suite1 \in CipherSuite, suite2 \in CipherSuite, secret \in Secrets :
           LET session1 == generate_master_secret(
                               TLSSession(TLS_1_3_PQC, suite1), secret)
               session2 == generate_master_secret(
                               TLSSession(TLS_1_3_PQC, suite2), secret)
           IN  call' = [op |-> "derive_keys",
                        arg |-> <<session1, session2>>,
                        ret |-> <<derive_keys(session1), derive_keys(session2)>>]
    /\ UNCHANGED <<serverVars, auxVars, asyncVars, tlsVars, netVars>>

\* Bound of the model.
MaxTokenLen == 5    \* longest string passed to JWTToken(const std::string&)

Times == 0..MaxTime

\* The strings JWTToken(token) is constructed from.
TokenStrings == {<<>>} \cup SeqsUpTo({"a", "."}, MaxTokenLen)

\* A constructor that ends the signature at the third '.'.
JWTToken_signature_to_next_dot(token) ==
    LET first_dot  == Find(token, ".", 0)
        second_dot == Find(token, ".", first_dot + 1)
        third_dot  == Find(token, ".", second_dot + 1)
    IN  IF first_dot = NPOS \/ second_dot = NPOS
        THEN Unexpected("invalid_argument")
        ELSE Expected([header_    |-> SubStr(token, 0, first_dot),
                       payload_   |-> SubStr(token, first_dot + 1,
                                             second_dot - first_dot - 1),
                       signature_ |-> IF third_dot = NPOS
                                      THEN SubStr(token, second_dot + 1,
                                                  Len(token) - second_dot - 1)
                                      ELSE SubStr(token, second_dot + 1,
                                                  third_dot - second_dot - 1)])

\* JWTToken::JWTToken(token): npos + 1 is 0, so a string without '.' has no
\* second '.' either.
JWTToken_from_string(token) ==
    LET first_dot  == Find(token, ".", 0)
        second_dot == Find(token, ".", first_dot + 1)
    IN  IF first_dot = NPOS \/ second_dot = NPOS
        THEN Unexpected("invalid_argument")
        ELSE Expected([header_    |-> SubStr(token, 0, first_dot),
                       payload_   |-> SubStr(token, first_dot + 1,
                                             second_dot - first_dot - 1),
                       signature_ |-> SubStr(token, second_dot + 1,
                                             Len(token) - second_dot - 1)])

\* JWTToken::to_string
JWTToken_to_string(token) ==
    token.header_ \o <<".">> \o token.payload_ \o <<".">> \o token.signature_

\* What the three parts of a token stand for once decoded.  A part is
\* decodable when it is base64url of the JSON expected there; a decodable
\* payload carries the expiry; a decodable signature is the MAC of a payload
\* under a key.
SigningKeys == SeqsUpTo(Bytes, 1)
JwtPayloads == [decodable : BOOLEAN, exp : Times]
JwtTokens ==
    [header_    : [decodable : BOOLEAN],
     payload_   : JwtPayloads,
     signature_ : [decodable : BOOLEAN, key : SigningKeys, signed : JwtPayloads]]

\* jwt::decode(token_string): decodes the three parts and throws when one of
\* them does not decode; it is given no key.
jwt_decode(token) ==
    IF /\ token.header_.decodable /\ token.payload_.decodable
       /\ token.signature_.decodable
    THEN Expected([expires_at |-> token.payload_.exp])
    ELSE Unexpected("throws")

\* A validate that does not look at the expiry.
JWTToken_validate_any_expiry(token, public_key, now) ==
    jwt_decode(token).has_value

\* JWTToken::validate(public_key); now is what system_clock::now() returns.
JWTToken_validate(token, public_key, now) ==
    LET decoded == jwt_decode(token)
    IN  IF decoded.has_value THEN decoded.value.expires_at > now ELSE FALSE

\* JWTToken::get_expiry; now is what system_clock::now() returns if it is
\* called.
JWTToken_get_expiry(token, now) ==
    LET decoded == jwt_decode(token)
    IN  IF decoded.has_value THEN decoded.value.expires_at ELSE now

\* JWTToken::is_expired: system_clock::now() > get_expiry().  The order of the
\* two operands is not fixed; the clock reads now, and now + tick when it is
\* read a second time.
JWTToken_is_expired(token, now, tick, expiry_first) ==
    IF jwt_decode(token).has_value THEN now > JWTToken_get_expiry(token, now)
    ELSE IF expiry_first THEN now + tick > JWTToken_get_expiry(token, now)
    ELSE now > JWTToken_get_expiry(token, now + tick)

\* TLSSecureSocket::authenticate_with_jwt: validate with a key of zeros.
authenticate_with_jwt(token, now) == JWTToken_validate(token, <<0>>, now)

\* JWTToken(s).to_string()
JwtFromString ==
    /\ call.op = "idle"
    /\ \E s \in TokenStrings :
           LET parsed == JWTToken_from_string(s)
           IN  call' = [op |-> "jwt_from_string", arg |-> s,
                        ret |-> IF parsed.has_value
                                THEN Expected(JWTToken_to_string(parsed.value))
                                ELSE parsed]
    /\ UNCHANGED <<serverVars, auxVars, asyncVars, tlsVars, netVars>>

\* token.validate(public_key) at the time now
JwtValidate ==
    /\ call.op = "idle"
    /\ \E token \in JwtTokens, public_key \in SigningKeys, now \in Times :
           call' = [op |-> "jwt_validate",
                    arg |-> [token |-> token, public_key |-> public_key,
                             now |-> now],
                    ret |-> JWTToken_validate(token, public_key, now)]
    /\ UNCHANGED <<serverVars, auxVars, asyncVars, tlsVars, netVars>>

\* socket.authenticate_with_jwt(token) at the time now
AuthenticateWithJwt ==
    /\ call.op = "idle"
    /\ \E token \in JwtTokens, now \in Times :
           call' = [op |-> "authenticate_with_jwt",
                    arg |-> [token |-> token, public_key |-> <<0>>, now |-> now],
                    ret |-> authenticate_with_jwt(token, now)]
    /\ UNCHANGED <<serverVars, auxVars, asyncVars, tlsVars, netVars>>

\* is_expired() of two tokens with the same header and payload, at the same
\* time.
JwtIsExpired ==
    /\ call.op = "idle"
    /\ \E token1 \in JwtTokens, token2 \in JwtTokens, now \in Times,
          tick \in 0..1, expiry_first \in BOOLEAN :
           /\ token1.header_ = token2.header_
           /\ token1.payload_ = token2.payload_
           /\ call' = [op |-> "jwt_is_expired",
                       arg |-> [token1 |-> token1, token2 |-> token2,
                                now |-> now],
                       ret |-> <<JWTToken_is_expired(token1, now, tick,
                                                     expiry_first),
                                 JWTToken_is_expired(token2, now, tick,
                                                     expiry_first)>>]
    /\ UNCHANGED <<serverVars, auxVars, asyncVars, tlsVars, netVars>>

(***************************************************************************)
(* Threat monitor: IcewallProtection in tls_protocol.cpp                   *)
(*                                                                         *)
(* The known-bad list is a function-local static pointer, null until the   *)
(* first call of get_known_bad_ips; icewall.ips is that pointer, and       *)
(* icewall.out the last line written to std::cout.                         *)
(***************************************************************************)

\* IcewallProtection::ThreatLevel
LOW == 1
MEDIUM == 2
HIGH == 3
CRITICAL == 4
ThreatLevel == {LOW, MEDIUM, HIGH, CRITICAL}

\* Bounds of the model.
MaxIcewallGroups == 4   \* dot-separated groups of an address text

\* The text of numbers joined by dots.
Dotted(numbers) ==
    JoinWith([i \in 1..Len(numbers) |-> ToDecimal(numbers[i])], ".")

\* The three literals of get_known_bad_ips.
KnownBadIps ==
    { Dotted(<<192, 168, 1, 100>>), Dotted(<<10, 0, 0, 50>>),
      Dotted(<<172, 16, 0, 1>>) }

\* The literal monitor_connection searches for.
SuspiciousPattern == Dotted(<<255, 255, 255>>)

\* The addresses the calls are made with: the listed ones, and every text of
\* up to MaxIcewallGroups groups out of two.
IcewallGroups == {0, 255}
IcewallAddresses ==
    KnownBadIps \cup {Dotted(g) : g \in SeqsUpTo(IcewallGroups, MaxIcewallGroups)}

\* get_known_bad_ips: the list is allocated at the first call.
get_known_bad_ips(ips) == IF ips = <<>> THEN Some(KnownBadIps) ELSE ips

\* str.find(pattern, pos)
RECURSIVE FindString(_, _, _)
FindString(str, pattern, pos) ==
    IF pos + Len(pattern) > Len(str) THEN NPOS
    ELSE IF SubStr(str, pos, Len(pattern)) = pattern THEN pos
    ELSE FindString(str, pattern, pos + 1)

\* IcewallProtection::monitor_connection with the list pointer as it is.
monitor_connection_pattern_at_start(ips, client_ip) ==
    LET known_bad_ips_list == get_known_bad_ips(ips)[1]
    IN  IF client_ip \in known_bad_ips_list THEN HIGH
        ELSE IF FindString(client_ip, SuspiciousPattern, 0) = 0 THEN MEDIUM
        ELSE LOW

monitor_connection(ips, client_ip) ==
    LET known_bad_ips_list == get_known_bad_ips(ips)[1]
    IN  IF client_ip \in known_bad_ips_list THEN HIGH
        ELSE IF FindString(client_ip, SuspiciousPattern, 0) # NPOS THEN MEDIUM
        ELSE LOW

\* IcewallProtection::is_ip_blocked
is_ip_blocked(ip) == FALSE

\* IcewallProtection::block_ip: what it leaves of the state, and its result.
block_ip_lists_the_address(state, ip, level) ==
    [state |-> [ips |-> Some(get_known_bad_ips(state.ips)[1] \cup {ip}),
                out |-> <<"block", ip, level>>],
     ret   |-> TRUE]

block_ip(state, ip, level) ==
    [state |-> [state EXCEPT !.out = <<"block", ip, level>>],
     ret   |-> TRUE]

\* Nothing called yet.
IcewallInit == icewall = [ips |-> <<>>, out |-> <<>>]

\* The threat monitor at rest.
IcewallPark == icewall = [ips |-> <<>>, out |-> <<>>]

\* monitor_connection(client_ip)
MonitorConnection ==
    /\ call.op = "idle"
    /\ \E client_ip \in IcewallAddresses :
           call' = [op |-> "monitor_connection", arg |-> client_ip,
                    ret |-> monitor_connection(icewall.ips, client_ip)]
    /\ icewall' = [icewall EXCEPT !.ips = get_known_bad_ips(icewall.ips)]
    /\ UNCHANGED <<serverVars, tlsVars, netVars, asyncVars, pool>>

\* is_ip_blocked(ip)
IsIpBlocked ==
    /\ call.op = "idle"
    /\ \E ip \in IcewallAddresses :
           call' = [op |-> "is_ip_blocked", arg |-> ip, ret |-> is_ip_blocked(ip)]
    /\ UNCHANGED <<serverVars, tlsVars, netVars, asyncVars, icewall, pool>>

\* block_ip(ip, level)
BlockIp ==
    /\ call.op = "idle"
    /\ \E ip \in IcewallAddresses, level \in ThreatLevel :
           LET done == block_ip(icewall, ip, level)
           IN  /\ call' = [op |-> "block_ip", arg |-> <<ip, level>>,
                           ret |-> done.ret]
               /\ icewall' = done.state
    /\ UNCHANGED <<serverVars, tlsVars, netVars, asyncVars, pool>>

\* log_security_event(event): one line to std::cout.
LogSecurityEvent ==
    /\ call.op = "idle"
    /\ \E ip \in IcewallAddresses, level \in ThreatLevel :
           /\ call' = [op |-> "log_security_event", arg |-> <<ip, level>>,
                       ret |-> <<>>]
           /\ icewall' = [icewall EXCEPT !.out = <<"event", ip, level>>]
    /\ UNCHANGED <<serverVars, tlsVars, netVars, asyncVars, pool>>

(***************************************************************************)
(* Thread pool: performance::thread_pool in optimization.h                 *)
(*                                                                         *)
(* The threads are the workers and the thread that owns the pool.  A       *)
(* worker holds queue_mutex_ from its lock to the wait that blocks it or   *)
(* to the end of the block in which it takes a task.  stop_ is an atomic   *)
(* that the destructor stores without the mutex, so that store can fall    *)
(* between a worker's test of the wait predicate and its blocking.         *)
(***************************************************************************)

\* Bounds of the model.
MaxWorkers == 2         \* num_threads
MaxTasks == 2           \* calls of enqueue

WorkerIds == 1..MaxWorkers
TaskIds   == 1..MaxTasks

\* What the callable of task t returns.
TaskValue(t) == 41 + t

\* tasks_.front() and tasks_.pop()
worker_take_leaves_front(tasks) == [task |-> Head(tasks), tasks |-> tasks]

worker_take(tasks) == [task |-> Head(tasks), tasks |-> Tail(tasks)]

\* thread_pool(num_threads): stop_ false, every worker at the top of its loop.
PoolInit ==
    pool = [stop_   |-> FALSE,
            tasks_  |-> <<>>,
            mutex   |-> 0,
            workers |-> [w \in WorkerIds |-> [pc |-> "lock", task |-> 0]],
            owner   |-> "alive",
            enqueued |-> 0,
            runs    |-> [t \in TaskIds |-> 0],
            futures |-> [t \in TaskIds |-> <<>>]]

\* No pool constructed.
PoolPark ==
    pool = [stop_   |-> FALSE,
            tasks_  |-> <<>>,
            mutex   |-> 0,
            workers |-> [w \in WorkerIds |-> [pc |-> "exited", task |-> 0]],
            owner   |-> "destroyed",
            enqueued |-> 0,
            runs    |-> [t \in TaskIds |-> 0],
            futures |-> [t \in TaskIds |-> <<>>]]

\* A worker takes queue_mutex_: the unique_lock at the top of the loop, or
\* the wait that returns after a notification.
WorkerLock(w) ==
    /\ pool.workers[w].pc = "lock"
    /\ pool.mutex = 0
    /\ pool' = [pool EXCEPT !.mutex = w, !.workers[w].pc = "test"]
    /\ UNCHANGED <<serverVars, tlsVars, addrVars, netVars, asyncVars, icewall>>

\* With the mutex held the worker tests stop_ || !tasks_.empty().  When it
\* is false the worker goes on to block; when stop_ is set and the queue is
\* empty it returns; otherwise it takes the front task and releases the mutex.
WorkerTest(w) ==
    /\ pool.workers[w].pc = "test"
    /\ pool' =
         IF ~(pool.stop_ \/ pool.tasks_ # <<>>)
         THEN [pool EXCEPT !.workers[w].pc = "block"]
         ELSE IF pool.stop_ /\ pool.tasks_ = <<>>
         THEN [pool EXCEPT !.mutex = 0, !.workers[w].pc = "exited"]
         ELSE LET taken == worker_take(pool.tasks_)
              IN  [pool EXCEPT !.mutex = 0,
                               !.tasks_ = taken.tasks,
                               !.workers[w] = [pc |-> "run", task |-> taken.task]]
    /\ UNCHANGED <<serverVars, tlsVars, addrVars, netVars, asyncVars, icewall>>

\* condition_.wait blocks: the mutex is released and the worker waits for a
\* notification, in one step.
WorkerBlock(w) ==
    /\ pool.workers[w].pc = "block"
    /\ pool' = [pool EXCEPT !.mutex = 0, !.workers[w].pc = "waiting"]
    /\ UNCHANGED <<serverVars, tlsVars, addrVars, netVars, asyncVars, icewall>>

\* A waiting worker may wake without a notification.
SpuriousWakeup(w) ==
    /\ pool.workers[w].pc = "waiting"
    /\ pool' = [pool EXCEPT !.workers[w].pc = "lock"]
    /\ UNCHANGED <<serverVars, tlsVars, addrVars, netVars, asyncVars, icewall>>

\* task(): the packaged_task runs the callable and makes the future ready.
WorkerRun(w) ==
    /\ pool.workers[w].pc = "run"
    /\ LET t == pool.workers[w].task
       IN  pool' = [pool EXCEPT !.runs[t] = @ + 1,
                                !.futures[t] = Some(TaskValue(t)),
                                !.workers[w] = [pc |-> "lock", task |-> 0]]
    /\ UNCHANGED <<serverVars, tlsVars, addrVars, netVars, asyncVars, icewall>>

\* enqueue, up to the end of its locked block: the task is put in the queue.
Enqueue ==
    /\ pool.owner = "alive"
    /\ pool.mutex = 0
    /\ ~pool.stop_
    /\ pool.enqueued < MaxTasks
    /\ pool' = [pool EXCEPT !.enqueued = @ + 1,
                            !.tasks_ = Append(@, pool.enqueued + 1),
                            !.owner = "notify_one"]
    /\ UNCHANGED <<serverVars, tlsVars, addrVars, netVars, asyncVars, icewall>>

\* enqueue, condition_.notify_one(): one waiting worker, if there is one, is
\* woken.
EnqueueNotify ==
    /\ pool.owner = "notify_one"
    /\ \/ /\ \A w \in WorkerIds : pool.workers[w].pc # "waiting"
          /\ pool' = [pool EXCEPT !.owner = "alive"]
       \/ \E w \in WorkerIds :
              /\ pool.workers[w].pc = "waiting"
              /\ pool' = [pool EXCEPT !.owner = "alive",
                                      !.workers[w].pc = "lock"]
    /\ UNCHANGED <<serverVars, tlsVars, addrVars, netVars, asyncVars, icewall>>

\* ~thread_pool: stop_ = true, with no mutex held.
DestructorStore ==
    /\ pool.owner = "alive"
    /\ pool' = [pool EXCEPT !.stop_ = TRUE, !.owner = "notify_all"]
    /\ UNCHANGED <<serverVars, tlsVars, addrVars, netVars, asyncVars, icewall>>

\* ~thread_pool: condition_.notify_all() wakes the workers that are waiting.
DestructorNotify ==
    /\ pool.owner = "notify_all"
    /\ pool' = [pool EXCEPT
           !.owner = "join",
           !.workers = [w \in WorkerIds |->
                           IF pool.workers[w].pc = "waiting"
                           THEN [pool.workers[w] EXCEPT !.pc = "lock"]
                           ELSE pool.workers[w]]]
    /\ UNCHANGED <<serverVars, tlsVars, addrVars, netVars, asyncVars, icewall>>

\* ~thread_pool: the joins return once every worker has returned.
DestructorJoin ==
    /\ pool.owner = "join"
    /\ \A w \in WorkerIds : pool.workers[w].pc = "exited"
    /\ pool' = [pool EXCEPT !.owner = "destroyed"]
    /\ UNCHANGED <<serverVars, tlsVars, addrVars, netVars, asyncVars, icewall>>

\* The threat monitor and the thread pool at rest.
AuxPark == IcewallPark /\ PoolPark

(***************************************************************************)
(* The registry of AsyncConnectionManager, and connection identifiers:     *)
(* async_connection_manager.cpp 32-131 and 201-216.                        *)
(*                                                                         *)
(* The member functions are called one after the other here; call holds    *)
(* the call in progress and what it returned or threw.                     *)
(***************************************************************************)

\* Bounds of the model.
MaxIssued == 3      \* identifiers a connection counter hands out

\* std::setw(width) with std::setfill(fill): a field shorter than width is
\* filled on the left, a longer one is written whole.
RECURSIVE SetW(_, _, _)
SetW(field, width, fill) ==
    IF Len(field) >= width THEN field
    ELSE SetW(<<fill>> \o field, width, fill)

\* The width of the number in a connection identifier.
ID_WIDTH == 16

\* A generate_connection_id that reads the counter and leaves it.
AsyncConnectionManager_generate_connection_id_keeps_counter(connection_counter_) ==
    [id |-> <<"c", "o", "n", "n", "_">>
            \o SetW(ToHex(connection_counter_), ID_WIDTH, "0"),
     connection_counter_ |-> connection_counter_]

\* AsyncConnectionManager::generate_connection_id: fetch_add(1) on the atomic
\* counter, and "conn_" followed by the old value in hexadecimal.  The
\* counter is a uint64_t, which no run of the model wraps.
AsyncConnectionManager_generate_connection_id(connection_counter_) ==
    [id |-> <<"c", "o", "n", "n", "_">>
            \o SetW(ToHex(connection_counter_), ID_WIDTH, "0"),
     connection_counter_ |-> connection_counter_ + 1]

\* A ConnectionState as the registry holds it.
ConnectionState(connection_id) == [connection_id |-> connection_id, active |-> TRUE]

\* active_connections_[connection_id] = std::move(state), and erase
MapAssign(map, key, value) ==
    [k \in DOMAIN map \cup {key} |-> IF k = key THEN value ELSE map[k]]
MapErase(map, key) == [k \in DOMAIN map \ {key} |-> map[k]]
EmptyMap == [k \in {} |-> <<>>]

\* What a call gives back: a value, or an exception of the message.
Returned(value) == [threw |-> FALSE, value |-> value]
Threw(what)     == [threw |-> TRUE, what |-> what]

\* AsyncConnectionManager::initialize
AsyncConnectionManager_initialize(this) ==
    [this |-> [this EXCEPT !.initialized_ = TRUE], ret |-> Returned(TRUE)]

\* AsyncConnectionManager::shutdown
AsyncConnectionManager_shutdown(this) ==
    IF ~this.initialized_ THEN this
    ELSE [this EXCEPT !.active_connections_ = EmptyMap,
                      !.initialized_ = FALSE]

\* AsyncConnectionManager::create_async_connection(addr, port); connect_ok
\* says whether the host lets the socket connect.
AsyncConnectionManager_create_async_connection(this, connect_ok) ==
    IF ~this.initialized_
    THEN [this |-> this,
          ret |-> Threw("AsyncConnectionManager not initialized")]
    ELSE LET made == AsyncConnectionManager_generate_connection_id(
                         this.connection_counter_)
             counted == [this EXCEPT
                            !.connection_counter_ = made.connection_counter_,
                            !.issued = Append(@, made.id)]
         IN  IF ~connect_ok
             THEN [this |-> counted, ret |-> Threw("Failed to connect")]
             ELSE [this |-> [counted EXCEPT !.active_connections_ =
                                MapAssign(@, made.id, ConnectionState(made.id))],
                   ret |-> Returned(made.id)]

\* A close_connection that marks the entry and leaves it in the registry.
AsyncConnectionManager_close_connection_keeps_entry(this, connection_id) ==
    IF connection_id \in DOMAIN this.active_connections_
    THEN [this EXCEPT !.active_connections_[connection_id].active = FALSE]
    ELSE this

\* AsyncConnectionManager::close_connection(connection_id): the socket is
\* disconnected and the entry erased.
AsyncConnectionManager_close_connection(this, connection_id) ==
    IF connection_id \in DOMAIN this.active_connections_
    THEN [this EXCEPT !.active_connections_ = MapErase(@, connection_id)]
    ELSE this

\* AsyncConnectionManager::get_connection(connection_id): the ConnectionState
\* found, or <<>> for nullptr.
AsyncConnectionManager_get_connection(this, connection_id) ==
    IF /\ connection_id \in DOMAIN this.active_connections_
       /\ this.active_connections_[connection_id].active
    THEN <<this.active_connections_[connection_id]>>
    ELSE <<>>

\* AsyncConnectionManager::get_active_connection_count
get_active_connection_count(this) == Cardinality(DOMAIN this.active_connections_)

\* AsyncConnectionManager::get_all_connection_ids, as a set: the order of an
\* unordered_map is not fixed.
get_all_connection_ids(this) ==
    {id \in DOMAIN this.active_connections_ : this.active_connections_[id].active}

\* The identifiers a caller passes: those the counter can hand out, and one
\* it never does.
KnownIds ==
    {AsyncConnectionManager_generate_connection_id(n).id : n \in 0..MaxIssued}
    \cup {<<"c", "o", "n", "n", "_", "x">>}

\* AsyncConnectionManager(): not initialized, nothing registered.  issued is
\* not of the code: the identifiers generate_connection_id has returned, in
\* the order of the calls.
RegistryInit ==
    conn_manager = [initialized_ |-> FALSE, connection_counter_ |-> 0,
                    active_connections_ |-> EmptyMap, issued |-> <<>>]

\* The registry at rest.
RegistryPark == RegistryInit


\* manager.initialize()
ManagerInitialize ==
    /\ call.op = "idle"
    /\ LET done == AsyncConnectionManager_initialize(conn_manager)
       IN  /\ conn_manager' = done.this
           /\ call' = [op |-> "initialize", arg |-> [before |-> conn_manager],
                       ret |-> done.ret]
    /\ UNCHANGED <<tlsVars, netVars, asyncVars, auxVars, dual_server>>

\* manager.shutdown()
ManagerShutdown ==
    /\ call.op = "idle"
    /\ conn_manager' = AsyncConnectionManager_shutdown(conn_manager)
    /\ call' = [op |-> "shutdown", arg |-> [before |-> conn_manager],
                ret |-> Returned(<<>>)]
    /\ UNCHANGED <<tlsVars, netVars, asyncVars, auxVars, dual_server>>

\* manager.create_async_connection(addr, port)
ManagerCreateAsyncConnection ==
    /\ call.op = "idle"
    /\ Len(conn_manager.issued) < MaxIssued
    /\ \E connect_ok \in BOOLEAN :
           LET done == AsyncConnectionManager_create_async_connection(
                           conn_manager, connect_ok)
           IN  /\ conn_manager' = done.this
               /\ call' = [op |-> "create_async_connection",
                           arg |-> [before |-> conn_manager,
                                    connect_ok |-> connect_ok],
                           ret |-> done.ret]
    /\ UNCHANGED <<tlsVars, netVars, asyncVars, auxVars, dual_server>>

\* manager.close_connection(connection_id)
ManagerCloseConnection ==
    /\ call.op = "idle"
    /\ \E connection_id \in KnownIds :
           /\ conn_manager' = AsyncConnectionManager_close_connection(
                                  conn_manager, connection_id)
           /\ call' = [op |-> "close_connection",
                       arg |-> [before |-> conn_manager,
                                connection_id |-> connection_id],
                       ret |-> Returned(<<>>)]
    /\ UNCHANGED <<tlsVars, netVars, asyncVars, auxVars, dual_server>>

\* manager.get_connection(connection_id)
ManagerGetConnection ==
    /\ call.op = "idle"
    /\ \E connection_id \in KnownIds :
           call' = [op |-> "get_connection",
                    arg |-> [before |-> conn_manager,
                             connection_id |-> connection_id],
                    ret |-> Returned(AsyncConnectionManager_get_connection(
                                         conn_manager, connection_id))]
    /\ UNCHANGED <<tlsVars, netVars, asyncVars, auxVars, serverVars>>

\* manager.get_active_connection_count() and manager.get_all_connection_ids()
ManagerStatistics ==
    /\ call.op = "idle"
    /\ call' = [op |-> "statistics", arg |-> [before |-> conn_manager],
                ret |-> Returned([count |-> get_active_connection_count(conn_manager),
                                  ids |-> get_all_connection_ids(conn_manager)])]
    /\ UNCHANGED <<tlsVars, netVars, asyncVars, auxVars, serverVars>>

\* create_async_connection called by a thread of the application, up to the
\* connect: initialized_ is read and the identifier is made.  A call on a
\* manager that is not initialized throws here and changes nothing.
CreateAsyncConnectionBegin(t) ==
    /\ threads[t].pc = "idle"
    /\ conn_manager.initialized_
    /\ Len(conn_manager.issued) < MaxIssued
    /\ LET made == AsyncConnectionManager_generate_connection_id(
                       conn_manager.connection_counter_)
       IN  /\ conn_manager' = [conn_manager EXCEPT
                  !.connection_counter_ = made.connection_counter_,
                  !.issued = Append(@, made.id)]
           /\ threads' = [threads EXCEPT
                  ![t] = [pc |-> "connecting", connection_id |-> made.id]]
    /\ UNCHANGED <<tlsVars, addrVars, netVars, auxVars, server, manager,
                   dual_server>>

\* The rest of that call: the connect fails and the call throws, or the
\* ConnectionState is stored under connections_mutex_.
CreateAsyncConnectionEnd(t) ==
    /\ threads[t].pc = "connecting"
    /\ \E connect_ok \in BOOLEAN :
           conn_manager' =
               IF connect_ok
               THEN [conn_manager EXCEPT !.active_connections_ =
                        MapAssign(@, threads[t].connection_id,
                                  ConnectionState(threads[t].connection_id))]
               ELSE conn_manager
    /\ threads' = [threads EXCEPT ![t] = IdleThread]
    /\ UNCHANGED <<tlsVars, addrVars, netVars, auxVars, server, manager,
                   dual_server>>

(***************************************************************************)
(* The threads of AsyncDualStackServer from start() to stop():             *)
(* async_connection_manager.cpp 283-443 and 462-467.                       *)
(*                                                                         *)
(* The threads are the two accept loops, the worker loop and the thread    *)
(* that calls stop().  A step is what a thread does between two points     *)
(* where another thread can run: one access to an atomic, one critical     *)
(* section of pending_mutex_, one call on the condition variable.          *)
(* pending_cv_.wait(lock, pred) is the loop while (!pred()) wait(lock):    *)
(* the predicate is tested with the mutex held, and wait(lock) releases    *)
(* the mutex and blocks in one step.                                       *)
(***************************************************************************)

\* Bounds of the model.
MaxAccepted == 2    \* connections the two acceptors hand to the loops

AcceptLoops == {"ipv4", "ipv6"}

\* AsyncDualStackServer::generate_connection_id: fetch_add(1) on the atomic
\* counter, and "server_conn_" followed by the old value in hexadecimal.
AsyncDualStackServer_generate_connection_id(connection_counter_) ==
    [id |-> <<"s", "e", "r", "v", "e", "r", "_", "c", "o", "n", "n", "_">>
            \o SetW(ToHex(connection_counter_), ID_WIDTH, "0"),
     connection_counter_ |-> connection_counter_ + 1]

\* pending_cv_.notify_one() and notify_all() as the one waiting thread, the
\* worker, sees them: if it is blocked in wait it goes on to take the mutex
\* again, and if it is not the call does nothing.
notify(worker) ==
    IF worker.pc = "waiting" THEN [worker EXCEPT !.pc = "lock"] ELSE worker

\* start() has returned true: running_ and worker_running_ are set and the
\* three threads are at the top of their loops.  pushed and handled are not
\* of the code: the identifiers in the order they were pushed and in the
\* order they were given to handle_client_async.
DualServerInit ==
    dual_server \in
        [running_ : {TRUE}, worker_running_ : {TRUE},
         connection_counter_ : {0},
         pending_connections_ : {<<>>},
         pending_mutex_ : {"free"},
         active_connections_ : {{}},
         connection_handler_ : BOOLEAN,
         loops : {[l \in AcceptLoops |-> [pc |-> "while", conn_id |-> <<>>]]},
         worker : {[pc |-> "while", pending |-> <<>>]},
         stop : {"running"},
         pushed : {<<>>}, handled : {<<>>}]

\* The server at rest: stop() has returned.
DualServerPark ==
    dual_server =
        [running_ |-> FALSE, worker_running_ |-> FALSE,
         connection_counter_ |-> 0,
         pending_connections_ |-> <<>>,
         pending_mutex_ |-> "free",
         active_connections_ |-> {},
         connection_handler_ |-> FALSE,
         loops |-> [l \in AcceptLoops |-> [pc |-> "exited", conn_id |-> <<>>]],
         worker |-> [pc |-> "exited", pending |-> <<>>],
         stop |-> "stopped",
         pushed |-> <<>>, handled |-> <<>>]

\* The registry and the server at rest.
ServerPark == RegistryPark /\ DualServerPark

\* handle_ipv4_connections / handle_ipv6_connections: while (running_)
AcceptLoopWhile(l) ==
    /\ dual_server.loops[l].pc = "while"
    /\ dual_server' = [dual_server EXCEPT
           !.loops[l].pc = IF dual_server.running_ THEN "accept" ELSE "exited"]
    /\ UNCHANGED <<tlsVars, addrVars, netVars, asyncVars, auxVars, conn_manager>>

\* accept() returns a socket, and generate_connection_id names it.
AcceptLoopAccepted(l) ==
    /\ dual_server.loops[l].pc = "accept"
    /\ dual_server.connection_counter_ < MaxAccepted
    /\ LET made == AsyncDualStackServer_generate_connection_id(
                       dual_server.connection_counter_)
       IN  dual_server' = [dual_server EXCEPT
               !.connection_counter_ = made.connection_counter_,
               !.loops[l] = [pc |-> "push", conn_id |-> made.id]]
    /\ UNCHANGED <<tlsVars, addrVars, netVars, asyncVars, auxVars, conn_manager>>

\* accept() returns an error: the loop sleeps 10 ms and goes round.
AcceptLoopSleep(l) ==
    /\ dual_server.loops[l].pc = "accept"
    /\ dual_server' = [dual_server EXCEPT !.loops[l].pc = "while"]
    /\ UNCHANGED <<tlsVars, addrVars, netVars, asyncVars, auxVars, conn_manager>>

\* The lock_guard on pending_mutex_ is taken.
AcceptLoopLock(l) ==
    /\ dual_server.loops[l].pc = "push"
    /\ dual_server.pending_mutex_ = "free"
    /\ dual_server' = [dual_server EXCEPT
           !.pending_mutex_ = l,
           !.loops[l].pc = "pushing"]
    /\ UNCHANGED <<tlsVars, addrVars, netVars, asyncVars, auxVars, conn_manager>>

\* pending_connections_.push(std::move(pending)), and the lock_guard ends.
AcceptLoopPush(l) ==
    /\ dual_server.loops[l].pc = "pushing"
    /\ dual_server' = [dual_server EXCEPT
           !.pending_connections_ = Append(@, dual_server.loops[l].conn_id),
           !.pushed = Append(@, dual_server.loops[l].conn_id),
           !.pending_mutex_ = "free",
           !.loops[l].pc = "notify"]
    /\ UNCHANGED <<tlsVars, addrVars, netVars, asyncVars, auxVars, conn_manager>>

\* pending_cv_.notify_one(), and the loop goes round.
AcceptLoopNotify(l) ==
    /\ dual_server.loops[l].pc = "notify"
    /\ dual_server' = [dual_server EXCEPT
           !.worker = notify(@),
           !.loops[l] = [pc |-> "while", conn_id |-> <<>>]]
    /\ UNCHANGED <<tlsVars, addrVars, netVars, asyncVars, auxVars, conn_manager>>

\* async_worker_loop: while (worker_running_ || !pending_connections_.empty()).
\* The queue is read without pending_mutex_; while an accept loop is writing
\* it under the mutex the read is a data race and may give either answer.
WorkerWhile ==
    /\ dual_server.worker.pc = "while"
    /\ \E empty \in IF \E l \in AcceptLoops : dual_server.loops[l].pc = "pushing"
                    THEN BOOLEAN
                    ELSE {dual_server.pending_connections_ = <<>>} :
           dual_server' = [dual_server EXCEPT
               !.worker.pc = IF dual_server.worker_running_ \/ ~empty
                             THEN "lock" ELSE "exited"]
    /\ UNCHANGED <<tlsVars, addrVars, netVars, asyncVars, auxVars, conn_manager>>

\* The unique_lock is taken, at the top of the loop body or inside wait
\* after a wake-up; the predicate of wait is tested next.
WorkerLockMutex ==
    /\ dual_server.worker.pc = "lock"
    /\ dual_server.pending_mutex_ = "free"
    /\ dual_server' = [dual_server EXCEPT
           !.pending_mutex_ = "worker",
           !.worker.pc = "predicate"]
    /\ UNCHANGED <<tlsVars, addrVars, netVars, asyncVars, auxVars, conn_manager>>

\* The predicate of wait: !pending_connections_.empty() || !worker_running_
WorkerPredicate ==
    /\ dual_server.worker.pc = "predicate"
    /\ dual_server' = [dual_server EXCEPT
           !.worker.pc = IF \/ dual_server.pending_connections_ # <<>>
                            \/ ~dual_server.worker_running_
                         THEN "drain" ELSE "wait"]
    /\ UNCHANGED <<tlsVars, addrVars, netVars, asyncVars, auxVars, conn_manager>>

\* wait(lock): the mutex is released and the thread blocks.
WorkerWait ==
    /\ dual_server.worker.pc = "wait"
    /\ dual_server' = [dual_server EXCEPT
           !.pending_mutex_ = "free",
           !.worker.pc = "waiting"]
    /\ UNCHANGED <<tlsVars, addrVars, netVars, asyncVars, auxVars, conn_manager>>

\* A wake-up nobody sent, which a condition variable may give.
WorkerSpuriousWakeup ==
    /\ dual_server.worker.pc = "waiting"
    /\ dual_server' = [dual_server EXCEPT !.worker.pc = "lock"]
    /\ UNCHANGED <<tlsVars, addrVars, netVars, asyncVars, auxVars, conn_manager>>

\* pending = std::move(pending_connections_.front()); pending_connections_.pop()
worker_front_and_pop(pending_connections_) ==
    [pending |-> Head(pending_connections_),
     pending_connections_ |-> Tail(pending_connections_)]

\* while (!pending_connections_.empty()): the front is taken and the mutex
\* released for the call of handle_client_async; on an empty queue the body
\* of the outer loop ends and with it the unique_lock.
WorkerDrain ==
    /\ dual_server.worker.pc = "drain"
    /\ dual_server' =
           IF dual_server.pending_connections_ # <<>>
           THEN LET taken == worker_front_and_pop(dual_server.pending_connections_)
                IN  [dual_server EXCEPT
                        !.pending_connections_ = taken.pending_connections_,
                        !.pending_mutex_ = "free",
                        !.worker = [pc |-> "handle", pending |-> taken.pending]]
           ELSE [dual_server EXCEPT
                    !.pending_mutex_ = "free",
                    !.worker.pc = "while"]
    /\ UNCHANGED <<tlsVars, addrVars, netVars, asyncVars, auxVars, conn_manager>>

\* handle_client_async(pending.connection_id, ...): the ConnectionState is
\* stored under active_connections_mutex_ and the handler, if set, called.
\* handled does not grow past the first repetition.
HandleClientAsync ==
    /\ dual_server.worker.pc = "handle"
    /\ dual_server' = [dual_server EXCEPT
           !.active_connections_ = @ \cup {dual_server.worker.pending},
           !.handled = IF Len(@) > MaxAccepted THEN @
                       ELSE Append(@, dual_server.worker.pending),
           !.worker = [pc |-> "relock", pending |-> <<>>]]
    /\ UNCHANGED <<tlsVars, addrVars, netVars, asyncVars, auxVars, conn_manager>>

\* lock.lock() after the call
WorkerRelock ==
    /\ dual_server.worker.pc = "relock"
    /\ dual_server.pending_mutex_ = "free"
    /\ dual_server' = [dual_server EXCEPT
           !.pending_mutex_ = "worker",
           !.worker.pc = "drain"]
    /\ UNCHANGED <<tlsVars, addrVars, netVars, asyncVars, auxVars, conn_manager>>

\* stop(): running_ is true, and running_ = false
StopStoreRunning ==
    /\ dual_server.stop = "running"
    /\ dual_server' = [dual_server EXCEPT
           !.running_ = FALSE,
           !.stop = "store_worker_running"]
    /\ UNCHANGED <<tlsVars, addrVars, netVars, asyncVars, auxVars, conn_manager>>

\* worker_running_ = false
StopStoreWorkerRunning ==
    /\ dual_server.stop = "store_worker_running"
    /\ dual_server' = [dual_server EXCEPT
           !.worker_running_ = FALSE,
           !.stop = "notify_all"]
    /\ UNCHANGED <<tlsVars, addrVars, netVars, asyncVars, auxVars, conn_manager>>

\* pending_cv_.notify_all(), with no mutex held
StopNotifyAll ==
    /\ dual_server.stop = "notify_all"
    /\ dual_server' = [dual_server EXCEPT
           !.worker = notify(@),
           !.stop = "join"]
    /\ UNCHANGED <<tlsVars, addrVars, netVars, asyncVars, auxVars, conn_manager>>

\* The three joins return once the three threads have returned; then
\* active_connections_.clear() under its mutex, and stop() returns.
StopJoin ==
    /\ dual_server.stop = "join"
    /\ \A l \in AcceptLoops : dual_server.loops[l].pc = "exited"
    /\ dual_server.worker.pc = "exited"
    /\ dual_server' = [dual_server EXCEPT
           !.active_connections_ = {},
           !.stop = "stopped"]
    /\ UNCHANGED <<tlsVars, addrVars, netVars, asyncVars, auxVars, conn_manager>>

(***************************************************************************)
(* Handshake claims.                                                       *)
(***************************************************************************)

\* The suites present in both the responder's preference list and the
\* initiator's list.
CommonSuites == Range(config.preferred_suites) \cap Range(client_suites)

\* C1: negotiation only ever selects a suite that is present in both the
\* responder's configured preference list and the initiator's offered list.
C1_SelectedInBothLists ==
    (srv.called /\ srv.selected # <<>>) => srv.selected[1] \in CommonSuites

\* C2: when no post-quantum suite is common to the two lists, the suite
\* selected is the common suite that comes first in the responder's list,
\* whatever the order of the initiator's list.
C2_ServerOrderDecides ==
    ( /\ srv.called
      /\ CommonSuites # {}
      /\ \A s \in CommonSuites : ~IsPostQuantumSuite(s) )
    => srv.selected = FirstIn(config.preferred_suites, CommonSuites)

\* C3: whenever a post-quantum/hybrid suite is offered by the initiator and
\* supported by the responder, negotiation selects a post-quantum/hybrid suite.
C3_PqcPreferredWhenCommon ==
    ( /\ srv.called
      /\ \E s \in CommonSuites : IsPostQuantumSuite(s) )
    => (srv.selected # <<>> /\ IsPostQuantumSuite(srv.selected[1]))

\* C4: if the two lists have no suite in common, negotiation selects no suite
\* and the connection never becomes established (is_tls_negotiated() stays
\* false).
C4_NoCommonSuiteAborts ==
    CommonSuites = {} =>
        /\ srv.called => srv.selected = <<>>
        /\ ~is_tls_negotiated

\* C5: a handshake reaches Established only by passing SuiteProposed,
\* SuiteAgreed and KeysExchanged in order: whenever is_tls_negotiated() is
\* true, the initiator has proposed its suites, the responder's negotiation
\* has agreed on one, and the session holds exchanged key material.
C5_EstablishedOnlyInOrder ==
    is_tls_negotiated =>
        /\ hello # <<>>
        /\ srv.called /\ srv.selected # <<>>
        /\ sock.session_ # <<>> /\ sock.session_[1].master_secret_ # <<>>

\* C6: with require_pqc set, no session is established with a suite that is
\* not post-quantum/hybrid: an agreed suite that is purely classical aborts
\* the handshake.
C6_RequirePqcEnforced ==
    (config.require_pqc /\ is_tls_negotiated) =>
        /\ negotiate_post_quantum
        /\ (srv.called /\ srv.selected # <<>>) => IsPostQuantumSuite(srv.selected[1])

(***************************************************************************)
(* Address claims.                                                         *)
(***************************************************************************)

\* The texts between the occurrences of sep in str.
RECURSIVE Split(_, _)
Split(str, sep) ==
    LET p == Find(str, sep, 0)
    IN  IF p = NPOS THEN <<str>>
        ELSE <<SubStr(str, 0, p)>> \o Split(SubSeq(str, p + 2, Len(str)), sep)

AllDigitsOf(group, base) == \A i \in 1..Len(group) : IsDigitOf(group[i], base)

\* Exactly four dot-separated groups of 1 to 3 decimal digits, each 0..255.
ValidV4Text(str) ==
    LET groups == Split(str, ".")
    IN  /\ Len(groups) = 4
        /\ \A i \in 1..4 :
               /\ Len(groups[i]) \in 1..3
               /\ AllDigitsOf(groups[i], 10)
               /\ DigitsValue(groups[i], 10) <= 255

\* A group of 1 to 4 hex digits.
ValidV6Group(group) == Len(group) \in 1..4 /\ AllDigitsOf(group, 16)

\* The places where a run of two or more ':' starts.
CompressionRuns(str) ==
    {p \in 1..(Len(str) - 1) :
        str[p] = ":" /\ str[p + 1] = ":" /\ (p = 1 \/ str[p - 1] # ":")}

\* The non-empty groups of a colon-separated text, in order.
V6GroupsOf(str) == SelectSeq(Split(str, ":"), LAMBDA g : g # <<>>)

\* A valid IPv6 text with exactly one '::': groups of 1 to 4 hex digits, single
\* ':' between them, at most 7 of them around the one '::'.
CompressedParts(str) ==
    LET p == FindDoubleColon(str, 0)
        left  == SubStr(str, 0, p)
        right == SubSeq(str, p + 3, Len(str))
    IN  <<IF left = <<>> THEN <<>> ELSE Split(left, ":"),
          IF right = <<>> THEN <<>> ELSE Split(right, ":")>>

ValidCompressedV6Text(str) ==
    /\ FindDoubleColon(str, 0) # NPOS
    /\ LET parts == CompressedParts(str)
       IN  /\ \A i \in 1..Len(parts[1]) : ValidV6Group(parts[1][i])
           /\ \A i \in 1..Len(parts[2]) : ValidV6Group(parts[2][i])
           /\ Len(parts[1]) + Len(parts[2]) <= 7

\* The eight words such a text denotes: the explicit groups at their places,
\* the '::' expanded to the missing zero words.
ExpandedWords(str) ==
    LET parts == CompressedParts(str)
        nl == Len(parts[1])
        nr == Len(parts[2])
    IN  [i \in 1..8 |->
            IF i <= nl THEN DigitsValue(parts[1][i], 16)
            ELSE IF i > 8 - nr THEN DigitsValue(parts[2][i - (8 - nr)], 16)
            ELSE 0]

\* C7: round-trip law: for every address a, IPAddress::from_string(a.to_string())
\* succeeds and returns an address equal to a.
C7_RoundTrip ==
    call.op = "round_trip" =>
        (call.ret.has_value /\ IPAddress_eq(call.ret.value, call.arg))

\* C8: ipv4_address::from_string(s) returns an address if and only if s is
\* exactly four dot-separated groups of 1 to 3 decimal digits, each 0..255, and
\* nothing else.
C8_Ipv4AcceptsExactlyDottedQuads ==
    call.op = "ipv4_from_string" => (call.ret.has_value <=> ValidV4Text(call.arg))

\* C9: ipv6_address::from_string returns an error for a text with more than one
\* '::' run, with more than 8 groups, or with a group that has non-hex content.
C9_Ipv6RejectsMalformed ==
    ( /\ call.op = "ipv6_from_string"
      /\ \/ Cardinality(CompressionRuns(call.arg)) > 1
         \/ Len(V6GroupsOf(call.arg)) > 8
         \/ \E i \in 1..Len(call.arg) :
                call.arg[i] # ":" /\ ~IsDigitOf(call.arg[i], 16) )
    => ~call.ret.has_value

\* C10: IPAddress::from_string succeeds on every valid IPv6 text with a single
\* '::', wherever the '::' stands, and the result has the explicit groups at
\* their positions with the '::' expanded to the missing zero groups.
C10_CompressedTextParses ==
    (call.op = "IPAddress_from_string" /\ ValidCompressedV6Text(call.arg))
    => ( /\ call.ret.has_value
         /\ IPAddress_eq(call.ret.value,
                         IPAddressV6(ipv6_address(ExpandedWords(call.arg)))) )

\* The zero runs of two or more words: <<start, length>> of every maximal run.
ZeroRuns(words) ==
    {r \in (1..8) \X (2..8) :
        /\ r[1] + r[2] - 1 <= 8
        /\ \A i \in r[1]..(r[1] + r[2] - 1) : words[i] = 0
        /\ (r[1] = 1 \/ words[r[1] - 1] # 0)
        /\ (r[1] + r[2] - 1 = 8 \/ words[r[1] + r[2]] # 0)}

\* The longest such run, the leftmost one among the longest.
LongestZeroRun(words) ==
    CHOOSE r \in ZeroRuns(words) :
        \A q \in ZeroRuns(words) : q[2] < r[2] \/ (q[2] = r[2] /\ q[1] >= r[1])

HexGroups(words, from, to) ==
    JoinWith([i \in 1..(to - from + 1) |-> ToHex(words[from + i - 1])], ":")

\* The text the compression rule prescribes for the eight words.
CanonicalV6Text(words) ==
    IF ZeroRuns(words) = {} THEN HexGroups(words, 1, 8)
    ELSE LET r == LongestZeroRun(words)
         IN  HexGroups(words, 1, r[1] - 1) \o <<":", ":">>
             \o HexGroups(words, r[1] + r[2], 8)

\* C11: for every IPv6 address, to_string is the text with exactly one '::' at
\* the longest run of two or more zero groups (the leftmost of the longest),
\* every other group in lowercase hex, and all 8 groups without '::' when there
\* is no such run.
C11_CompressionAtLongestRun ==
    (call.op = "IPAddress_to_string" /\ call.arg.family = "ipv6")
    => call.ret = CanonicalV6Text(ipv6_words(call.arg.addr))

\* Whether some dot-separated group of str is a number above 255.
HasOctetAbove255(str) ==
    \E i \in 1..Len(Split(str, ".")) :
        LET group == Split(str, ".")[i]
        IN  group # <<>> /\ AllDigitsOf(group, 10) /\ DigitsValue(group, 10) > 255

\* C12: IPAddress::from_string accepts 0.0.0.0 and 255.255.255.255, and returns
\* an error for a text of digits and dots with an octet above 255 or with fewer
\* than four octets.
C12_DottedQuadBounds ==
    call.op = "IPAddress_from_string" =>
        /\ call.arg = <<"0", ".", "0", ".", "0", ".", "0">> =>
               ( /\ call.ret.has_value
                 /\ call.ret.value = IPAddressV4(ipv4_address(<<0, 0, 0, 0>>)) )
        /\ call.arg = JoinWith([i \in 1..4 |-> <<"2", "5", "5">>], ".") =>
               ( /\ call.ret.has_value
                 /\ call.ret.value = IPAddressV4(ipv4_address(<<255, 255, 255, 255>>)) )
        /\ ( /\ \A i \in 1..Len(call.arg) :
                    IsDigitOf(call.arg[i], 10) \/ call.arg[i] = "."
             /\ (HasOctetAbove255(call.arg) \/ Len(Split(call.arg, ".")) < 4) )
           => ~call.ret.has_value

\* C13: a == b holds exactly when a and b hold the same family and the same
\* bits, never across families, and a != b is the negation of a == b.
C13_EqualityVariantAware ==
    call.op = "IPAddress_eq" =>
        /\ call.ret.eq <=> (call.arg[1] = call.arg[2])
        /\ call.arg[1].family # call.arg[2].family => ~call.ret.eq
        /\ call.ret.ne <=> ~call.ret.eq

\* 0.0.0.0 has been compared with :: and found different.
C13_Witness ==
    /\ call.op = "IPAddress_eq"
    /\ call.arg[1] = IPAddressV4(ipv4_address(<<0, 0, 0, 0>>))
    /\ call.arg[2] = IPAddressV6(ipv6_address(<<0, 0, 0, 0, 0, 0, 0, 0>>))
    /\ ~call.ret.eq /\ call.ret.ne

(***************************************************************************)
(* Transport claims.                                                       *)
(***************************************************************************)

\* The Socket objects alive that are open.
OpenSockets == {i \in SocketIds : sockets[i] # <<>> /\ sockets[i][1].is_open_}

\* C14: over connect, disconnect, move construction, move assignment and
\* destruction no handle is closed twice (the host never sees a close of a
\* descriptor that is not open, and no two open Sockets hold the same handle),
\* no handle stays open without an open Socket that owns it, and after a move
\* the source Socket is not open and holds no handle.
C14_HandlesClosedExactlyOnce ==
    /\ ~os.ebadf
    /\ \A i \in OpenSockets, j \in OpenSockets :
           i # j => sockets[i][1].handle_ # sockets[j][1].handle_
    /\ \A i \in OpenSockets :
           /\ sockets[i][1].handle_ \in Fds
           /\ os.fds[sockets[i][1].handle_].open
    /\ \A f \in Fds :
           os.fds[f].open => \E i \in OpenSockets : sockets[i][1].handle_ = f
    /\ ( /\ io.op \in {"move_construct", "move_assign"}
         /\ io.arg.this # io.arg.other )
       => sockets[io.arg.other] = <<Socket_default>>

\* A move assignment of an open Socket onto an open Socket: the handle of the
\* target was closed, the handle of the source is now the target's.
C14_Witness ==
    /\ io.op = "move_assign"
    /\ io.arg.this # io.arg.other
    /\ io.os_calls = <<OsCall("close", 0)>>
    /\ io.arg.this \in OpenSockets
    /\ Cardinality({f \in Fds : os.fds[f].open}) = 1

\* C20: a send or receive makes at most one transfer attempt, returns the
\* number of bytes which that attempt transferred, and a receive that returns
\* 0 is one whose ::recv returned 0, the orderly close of the peer.
C20_SingleTransferAttempt ==
    io.op \in {"send", "receive"} =>
        /\ Len(io.os_calls) <= 1
        /\ (io.os_calls # <<>> /\ io.os_calls[1].result >= 0)
               => io.ret = io.os_calls[1].result
        /\ (io.op = "receive" /\ io.ret = 0)
               => io.os_calls = <<OsCall("recv", 0)>>

\* The host lets every system call of the last listen or create_acceptor
\* succeed, and the port asked for is held by nobody.
CooperativeHost ==
    /\ io.arg.port \notin os.busy_ports
    /\ \A f \in DOMAIN io.arg.outcome : io.arg.outcome[f]

\* The positions in the system calls of the last call that have this name.
CallsNamed(name) == {k \in DOMAIN io.os_calls : io.os_calls[k].name = name}

\* C16: create_acceptor on a free port, port 0 included, returns an Acceptor
\* that is listening, and listen(0) on a freshly constructed Acceptor returns
\* success.
C16_FreePortListens ==
    /\ (io.op = "create_acceptor" /\ CooperativeHost)
           => (io.ret.has_value /\ io.ret.value.is_listening_)
    /\ ( /\ io.op = "listen" /\ CooperativeHost
         /\ io.arg.port = 0 /\ io.arg.before = Acceptor_default )
           => io.ret = success

\* C15: a listen that the host lets succeed switches IPv6-only mode off with a
\* setsockopt made before the bind, and leaves the Acceptor listening on a
\* descriptor that takes IPv4 and IPv6 connections alike.
C15_DualStackBeforeBind ==
    (io.op = "listen" /\ CooperativeHost) =>
        LET a == acceptors[io.arg.this][1]
        IN  /\ \E k \in CallsNamed("setsockopt"), b \in CallsNamed("bind") :
                   k < b /\ io.os_calls[k].result = 0
            /\ a.is_listening_
            /\ a.listen_socket_.handle_ \in Fds
            /\ os.fds[a.listen_socket_.handle_].listening
            /\ ~os.fds[a.listen_socket_.handle_].v6only

\* C17: a stop_listening leaves the Acceptor not listening and closes at most
\* one handle; on an Acceptor that is not listening it changes nothing and
\* closes nothing; an accept after a stop_listening returns an error without
\* a call of the host.
C17_StopIsIdempotent ==
    /\ io.op = "stop_listening" =>
           LET a == acceptors[io.arg.this][1]
           IN  /\ ~a.is_listening_
               /\ Len(io.os_calls) <= 1
               /\ ~io.arg.before.is_listening_
                      => (a = io.arg.before /\ io.os_calls = <<>>)
    /\ (io.op = "accept" /\ hist[io.arg.this].stops > 0)
           => (~io.ret.has_value /\ io.os_calls = <<>>)

\* An accept on an Acceptor that was stopped twice in a row.
C17_Witness ==
    /\ io.op = "accept"
    /\ hist[io.arg.this].stops = MaxStops
    /\ io.ret = Unexpected(invalid_address)
    /\ io.os_calls = <<>>

\* C18: a listen whose bind the host refuses returns bind_failed, one whose
\* ::listen the host refuses returns listen_failed, each after one attempt,
\* and the Acceptor is not listening afterwards.
C18_BindFailureIsReported ==
    ( /\ io.op = "listen"
      /\ io.arg.outcome.reuse_ok /\ io.arg.outcome.v6only_ok ) =>
        LET a == acceptors[io.arg.this][1]
            refused == io.arg.port \in os.busy_ports \/ ~io.arg.outcome.bind_ok
        IN  /\ refused => (io.ret = bind_failed /\ ~a.is_listening_)
            /\ (~refused /\ ~io.arg.outcome.listen_ok)
                   => (io.ret = listen_failed /\ ~a.is_listening_)
            /\ Cardinality(CallsNamed("bind")) <= 1
            /\ Cardinality(CallsNamed("listen")) <= 1

SignatureVerifies(token, key) ==
    /\ token.header_.decodable /\ token.payload_.decodable
    /\ token.signature_.decodable
    /\ token.signature_.key = key
    /\ token.signature_.signed = token.payload_

\* The calls that validate a token.
ValidateCalls == {"jwt_validate", "authenticate_with_jwt"}

\* C22: validate returns true if and only if the signature of the token
\* verifies over its header and payload with the given key and now <= expiry.
C22_ValidIffSignedAndFresh ==
    call.op \in ValidateCalls =>
        (call.ret <=> ( /\ SignatureVerifies(call.arg.token, call.arg.public_key)
                        /\ call.arg.now <= call.arg.token.payload_.exp ))

\* C23: validate returns false for every token whose expiry lies in the past,
\* whatever its signature, and for every token that cannot be decoded.
C23_ExpiredOrUndecodableIsInvalid ==
    call.op \in ValidateCalls =>
        ( ( \/ ~jwt_decode(call.arg.token).has_value
            \/ call.arg.token.payload_.exp < call.arg.now )
          => call.ret = FALSE )

\* A validate of a token whose signature verifies and whose expiry is past.
C23_Witness ==
    /\ call.op = "jwt_validate"
    /\ SignatureVerifies(call.arg.token, call.arg.public_key)
    /\ call.arg.token.payload_.exp < call.arg.now
    /\ call.ret = FALSE

\* C24: is_expired is true exactly when now is later than the stored expiry,
\* and two tokens with the same payload and different signatures give the
\* same answer at the same time.
C24_ExpiryIgnoresSignature ==
    call.op = "jwt_is_expired" =>
        /\ call.ret[1] = call.ret[2]
        /\ jwt_decode(call.arg.token1).has_value
               => call.ret[1] = (call.arg.now > call.arg.token1.payload_.exp)

\* The number of '.' in a string.
RECURSIVE CountDots(_)
CountDots(str) ==
    IF str = <<>> THEN 0
    ELSE (IF Head(str) = "." THEN 1 ELSE 0) + CountDots(Tail(str))

\* C25: JWTToken(s) raises invalid-argument for every string with fewer than
\* two '.', and for every other string s, JWTToken(s).to_string() = s.
C25_ThreePartRoundTrip ==
    call.op = "jwt_from_string" =>
        IF CountDots(call.arg) < 2
        THEN call.ret = Unexpected("invalid_argument")
        ELSE call.ret = Expected(call.arg)

\* A string with more than two '.' that came back unchanged.
C25_Witness ==
    /\ call.op = "jwt_from_string"
    /\ CountDots(call.arg) > 2
    /\ call.ret = Expected(call.arg)

\* C26: verify returns true exactly when the signature was made by sign over
\* the same message with the private key of the pair whose public key is
\* given.
C26_VerifyExactlyGenuine ==
    call.op = "sign_verify" =>
        (call.ret.verified <=> ( /\ call.arg.checked = call.arg.message
                                 /\ call.arg.verifier = call.arg.signer ))

\* C28: split_keys(combine_keys(a, b)) = (a, b) for all byte strings a and b.
C28_SplitInvertsCombine ==
    call.op = "split_combine" => call.ret = call.arg

\* C29: for the same master secret two sessions of different cipher suites
\* derive different key quadruples.
C29_KeysDifferBySuite ==
    call.op = "derive_keys" =>
        ( ( /\ call.arg[1].master_secret_ = call.arg[2].master_secret_
            /\ call.arg[1].cipher_suite_ # call.arg[2].cipher_suite_ )
          => call.ret[1] # call.ret[2] )

\* Whether every byte of a block is zero.
IsZeroed(block) == \A i \in 1..Len(block.bytes) : block.bytes[i] = 0

\* C30: when an established session is torn down (its socket is destroyed),
\* the master secret and the derived keys are zeroed: no block the session
\* gives back still holds key bytes.
C30_SecretsZeroedOnTeardown ==
    (~heap.alive /\ sock.tls_negotiated_) =>
        \A block \in heap.released : IsZeroed(block)

\* C38: secure_send and secure_receive throw and transfer nothing unless
\* tls_negotiated_ is true and a session exists, and they proceed when both
\* hold; tls_negotiated_ becomes true only in a perform_handshake that has
\* stored a master secret in a session.
C38_TransferNeedsSession ==
    /\ [](call.op \in {"secure_send", "secure_receive"} =>
            LET established == /\ call.arg.socket.tls_negotiated_
                               /\ call.arg.socket.session_ # <<>>
            IN  /\ ~established => call.ret = Unexpected("runtime_error")
                /\ established => call.ret.has_value
                /\ (established /\ call.op = "secure_send")
                       => call.ret.value = Len(call.arg.data))
    /\ [][ (sock'.tls_negotiated_ /\ ~sock.tls_negotiated_) =>
              /\ sock'.session_ # <<>>
              /\ sock'.session_[1].master_secret_ # <<>> ]_vars

\* secure_send has thrown on a socket that has a session but on which no
\* handshake has succeeded.
C38_Witness ==
    /\ call.op = "secure_send"
    /\ call.arg.socket.session_ # <<>>
    /\ ~call.arg.socket.tls_negotiated_
    /\ call.ret = Unexpected("runtime_error")

(***************************************************************************)
(* Asynchronous server claims.                                             *)
(***************************************************************************)

\* The threads inside a call on the socket of a connection of the manager:
\* a send or receive, or the disconnect of close_connection.
ManagerSocketUsers(id) ==
    {t \in AppThreads : /\ threads[t].connection_id = id
                        /\ threads[t].pc \in {"transfer", "closing"}}

\* The threads inside a call on the socket of a connection of the server:
\* the worker while the handler runs with it, or the disconnect of
\* close_connection.
ServerSocketUsers(id) ==
    {t \in AppThreads : /\ threads[t].connection_id = id
                        /\ threads[t].pc = "server_closing"}
    \cup (IF server.worker.pc = "handler" /\ server.worker.connection_id = id
          THEN {"worker"} ELSE {})

\* C21: no socket of a connection is in use by two threads at once, and no
\* thread is in a send, a receive or the handler with the socket of a
\* connection that another thread has closed and erased.
C21_OneThreadPerSocket ==
    /\ \A id \in ManagedIds :
           /\ Cardinality(ManagerSocketUsers(id)) <= 1
           /\ ManagerSocketUsers(id) # {}
                  => manager.active_connections_[id] = "stored"
    /\ \A id \in ConnectionIds :
           /\ Cardinality(ServerSocketUsers(id)) <= 1
           /\ ServerSocketUsers(id) # {}
                  => server.active_connections_[id] = "stored"

(***************************************************************************)
(* Threat monitor claims.                                                  *)
(***************************************************************************)

\* Whether pattern occurs somewhere in str.
Occurs(pattern, str) ==
    \E i \in 1..Len(str) :
        /\ i + Len(pattern) - 1 <= Len(str)
        /\ \A j \in 1..Len(pattern) : str[i + j - 1] = pattern[j]

\* C31: monitor_connection returns HIGH for every address on the block-list,
\* MEDIUM, the level of the pattern rule, for every other address in which
\* the pattern occurs, and LOW for every address that matches no rule.
C31_HighestMatchingLevel ==
    call.op = "monitor_connection" =>
        call.ret = IF call.arg \in KnownBadIps THEN HIGH
                   ELSE IF Occurs(SuspiciousPattern, call.arg) THEN MEDIUM
                   ELSE LOW

\* An address that is not listed and has the pattern after its first
\* character has been classified.
C31_Witness ==
    /\ call.op = "monitor_connection"
    /\ call.arg \notin KnownBadIps
    /\ Occurs(SuspiciousPattern, call.arg)
    /\ FindString(call.arg, SuspiciousPattern, 0) > 0
    /\ call.ret = MEDIUM

\* What monitor_connection and is_ip_blocked answer for every address, the
\* state of the monitor being as given.
Classification(state) ==
    [ip \in IcewallAddresses |->
        <<monitor_connection(state.ips, ip), is_ip_blocked(ip)>>]

\* C32: block_ip returns true, and neither block_ip nor log_security_event
\* changes what monitor_connection and is_ip_blocked answer for any address.
\* The answers are compared when the call has changed the list, the one
\* part of the state they are computed from.
C32_BlockingIsAdvisory ==
    [][ call'.op \in {"block_ip", "log_security_event"} =>
            /\ \/ icewall'.ips = icewall.ips
               \/ Classification(icewall') = Classification(icewall)
            /\ call'.op = "block_ip" => call'.ret = TRUE ]_vars

\* An address has been classified LOW after a block_ip call for it was made.
C32_Witness ==
    /\ call.op = "monitor_connection"
    /\ call.ret = LOW
    /\ icewall.out # <<>>
    /\ icewall.out[1] = "block"
    /\ icewall.out[2] = call.arg

(***************************************************************************)
(* Thread pool claims.                                                     *)
(***************************************************************************)

\* The tasks enqueue has accepted.
Enqueued == 1..pool.enqueued

\* C33: a task enqueue has accepted is run at most once, a future that is
\* ready holds the value of its own task, run once; and every accepted task
\* is run in the end.
C33_EveryTaskRunsOnce ==
    /\ [](\A t \in TaskIds :
            /\ pool.runs[t] <= 1
            /\ pool.runs[t] = 1 => t \in Enqueued
            /\ pool.futures[t] # <<>> =>
                   pool.runs[t] = 1 /\ pool.futures[t] = Some(TaskValue(t)))
    /\ \A t \in TaskIds :
           (t \in Enqueued) ~> (pool.runs[t] = 1 /\ pool.futures[t] # <<>>)

\* Every task has been accepted and run, and every future is ready.
C33_Witness ==
    /\ pool.enqueued = MaxTasks
    /\ \A t \in TaskIds : pool.runs[t] = 1 /\ pool.futures[t] = Some(TaskValue(t))

\* C35: once the destructor has started, every task that is in the queue is
\* still run and every worker ends, so that the joins return.
C35_DestructorDrainsAndEnds ==
    /\ [](pool.owner = "destroyed" =>
             pool.tasks_ = <<>> /\ \A t \in Enqueued : pool.runs[t] = 1)
    /\ (pool.owner = "notify_all") ~> (pool.owner = "destroyed")

(***************************************************************************)
(* Connection registry claims.                                             *)
(***************************************************************************)

\* C40: create_async_connection on a manager that is not initialized throws
\* and registers nothing; after close_connection(id) on a registered id,
\* get_connection(id) is null and the active count is one lower;
\* close_connection on an id that is not registered changes nothing; after
\* shutdown the registry is empty, and a second shutdown changes nothing.
C40_RegistryFollowsTheCalls ==
    LET before == call.arg.before
    IN  /\ (call.op = "create_async_connection" /\ ~before.initialized_)
               => call.ret.threw /\ conn_manager = before
        /\ call.op = "close_connection"
               => IF call.arg.connection_id \in DOMAIN before.active_connections_
                  THEN /\ AsyncConnectionManager_get_connection(
                              conn_manager, call.arg.connection_id) = <<>>
                       /\ get_active_connection_count(conn_manager)
                              = get_active_connection_count(before) - 1
                       /\ get_all_connection_ids(conn_manager)
                              = get_all_connection_ids(before)
                                    \ {call.arg.connection_id}
                  ELSE conn_manager = before
        /\ call.op = "shutdown"
               => /\ get_active_connection_count(conn_manager) = 0
                  /\ get_all_connection_ids(conn_manager) = {}
                  /\ ~conn_manager.initialized_
                  /\ AsyncConnectionManager_shutdown(conn_manager) = conn_manager

\* One of two registered connections has been closed.
C40_Witness ==
    /\ call.op = "close_connection"
    /\ get_active_connection_count(call.arg.before) = 2
    /\ call.arg.connection_id \in DOMAIN call.arg.before.active_connections_
    /\ get_active_connection_count(conn_manager) = 1

\* C37: no two calls of generate_connection_id on one manager return the same
\* identifier, whichever threads make them and however their calls of
\* create_async_connection interleave, and the entry a call registers is
\* never the entry of a connection that is registered already.
C37_IdentifiersAreUnique ==
    /\ [](\A i, j \in 1..Len(conn_manager.issued) :
              i # j => conn_manager.issued[i] # conn_manager.issued[j])
    /\ [][\A t \in AppThreads :
              CreateAsyncConnectionEnd(t)
                  => threads[t].connection_id
                         \notin DOMAIN conn_manager.active_connections_]_vars

\* Two threads are inside create_async_connection at once, each with its
\* identifier.
C37_Witness ==
    /\ \A t \in AppThreads : threads[t].pc = "connecting"
    /\ Len(conn_manager.issued) = 2

(***************************************************************************)
(* Dual-stack server claims.                                               *)
(***************************************************************************)

IsPrefix(seq, other) ==
    /\ Len(seq) <= Len(other)
    /\ seq = SubSeq(other, 1, Len(seq))

AddrPark == call = Idle

HandshakeInit == TlsInit /\ AddrPark /\ NetPark /\ AsyncPark /\ AuxPark /\ ServerPark

HandshakeNext ==
    \/ CreateClientHello
    \/ NegotiateCipherSuite
    \/ PerformHandshake

SpecHandshake == HandshakeInit /\ [][HandshakeNext]_vars

AddressInit == TlsPark /\ call = Idle /\ NetPark /\ AsyncPark /\ AuxPark /\ ServerPark

AddressNext ==
    \/ Ipv4FromString
    \/ Ipv6FromString
    \/ IPAddressFromString
    \/ IPAddressToString
    \/ RoundTrip
    \/ IPAddressEquals
    \/ Return

SpecAddress == AddressInit /\ [][AddressNext]_vars

SocketInit ==
    TlsPark /\ AddrPark /\ NoObjects /\ os \in Hosts({}) /\ AsyncPark /\ AuxPark /\ ServerPark

SocketNext ==
    \/ SocketCtor
    \/ SocketDtor
    \/ SocketMoveCtor
    \/ SocketMoveAssign
    \/ SocketConnect
    \/ SocketDisconnect
    \/ SocketSend
    \/ SocketReceive

SpecSocket == SocketInit /\ [][SocketNext]_vars

AcceptorInit ==
    TlsPark /\ AddrPark /\ NoObjects /\ os \in Hosts(Ports \ {0}) /\ AsyncPark /\ AuxPark /\ ServerPark

AcceptorNext ==
    \/ AcceptorCtor
    \/ AcceptorDtor
    \/ AcceptorListen
    \/ AcceptorStopListening
    \/ AcceptorAccept
    \/ AcceptorEnableDualStack
    \/ CreateAcceptor

SpecAcceptor == AcceptorInit /\ [][AcceptorNext]_vars

CryptoInit == TlsPark /\ AddrPark /\ NetPark /\ AsyncPark /\ AuxPark /\ ServerPark

CryptoNext ==
    \/ SplitCombined
    \/ DilithiumSignVerify
    \/ DeriveKeys
    \/ JwtFromString
    \/ JwtValidate
    \/ AuthenticateWithJwt
    \/ JwtIsExpired
    \/ Return

SpecCrypto == CryptoInit /\ [][CryptoNext]_vars

AsyncInit == TlsPark /\ AddrPark /\ NetPark /\ ServerInit /\ AuxPark /\ ServerPark

AsyncNext ==
    \/ HandleConnections
    \/ WorkerPop
    \/ HandleClientStore
    \/ HandleClientCall
    \/ HandlerReturn
    \/ \E t \in AppThreads :
           \/ ServerCloseConnection(t)
           \/ ServerCloseErase(t)
           \/ CreateAsyncConnection(t)
           \/ GetConnection(t)
           \/ SocketTransfer(t)
           \/ SocketTransferReturn(t)
           \/ CloseConnection(t)
           \/ CloseErase(t)

SpecAsync == AsyncInit /\ [][AsyncNext]_vars

IcewallSpecInit == TlsPark /\ AddrPark /\ NetPark /\ AsyncPark /\ IcewallInit /\ PoolPark /\ ServerPark

IcewallNext ==
    \/ MonitorConnection
    \/ IsIpBlocked
    \/ BlockIp
    \/ LogSecurityEvent
    \/ Return

SpecIcewall == IcewallSpecInit /\ [][IcewallNext]_vars

PoolSpecInit == TlsPark /\ AddrPark /\ NetPark /\ AsyncPark /\ IcewallPark /\ PoolInit /\ ServerPark

\* What a worker does by itself, once the scheduler lets it run.
WorkerStep(w) ==
    \/ WorkerLock(w)
    \/ WorkerTest(w)
    \/ WorkerBlock(w)
    \/ WorkerRun(w)

\* What the owning thread does without a decision of the program.
OwnerStep ==
    \/ EnqueueNotify
    \/ DestructorNotify
    \/ DestructorJoin

PoolNext ==
    \/ \E w \in WorkerIds : WorkerStep(w) \/ SpuriousWakeup(w)
    \/ Enqueue
    \/ DestructorStore
    \/ OwnerStep

\* Every thread that can run is run in the end; when a task is enqueued, when
\* the pool is destroyed and whether a wait wakes by itself is not promised.
SpecPool ==
    /\ PoolSpecInit
    /\ [][PoolNext]_vars
    /\ \A w \in WorkerIds : WF_vars(WorkerStep(w))
    /\ WF_vars(OwnerStep)

SessionInit == TlsPark /\ AddrPark /\ NetPark /\ AsyncPark /\ AuxPark /\ ServerPark

SessionNext ==
    \/ PerformHandshake
    \/ PerformHandshakeFails
    \/ SecureSend
    \/ SecureReceive
    \/ DestroySecureSocket

SpecSession == SessionInit /\ [][SessionNext]_vars

ManagerInit ==
    TlsPark /\ call = Idle /\ NetPark /\ AsyncPark /\ AuxPark /\ RegistryInit
    /\ DualServerPark

ManagerNext ==
    \/ ManagerInitialize
    \/ ManagerShutdown
    \/ ManagerCreateAsyncConnection
    \/ ManagerCloseConnection
    \/ ManagerGetConnection
    \/ ManagerStatistics
    \/ Return

SpecManager == ManagerInit /\ [][ManagerNext]_vars

IdsInit == ManagerInit

IdsNext ==
    \/ ManagerInitialize
    \/ ManagerShutdown
    \/ ManagerCloseConnection
    \/ Return
    \/ \E t \in AppThreads :
           CreateAsyncConnectionBegin(t) \/ CreateAsyncConnectionEnd(t)

SpecIds == IdsInit /\ [][IdsNext]_vars

DualServerSpecInit ==
    TlsPark /\ AddrPark /\ NetPark /\ AsyncPark /\ AuxPark /\ RegistryPark
    /\ DualServerInit

AcceptLoopStep(l) ==
    \/ AcceptLoopWhile(l)
    \/ AcceptLoopSleep(l)
    \/ AcceptLoopLock(l)
    \/ AcceptLoopPush(l)
    \/ AcceptLoopNotify(l)

WorkerLoopStep ==
    \/ WorkerWhile
    \/ WorkerLockMutex
    \/ WorkerPredicate
    \/ WorkerWait
    \/ WorkerDrain
    \/ HandleClientAsync
    \/ WorkerRelock

StopStep == StopStoreWorkerRunning \/ StopNotifyAll \/ StopJoin

DualServerNext ==
    \/ \E l \in AcceptLoops : AcceptLoopStep(l) \/ AcceptLoopAccepted(l)
    \/ WorkerLoopStep
    \/ WorkerSpuriousWakeup
    \/ StopStoreRunning
    \/ StopStep

\* Every thread that can take a step of its own takes one in the end, and
\* every call of accept() returns.  That a peer connects, that a wake-up
\* comes unasked and that the application calls stop() is not promised.
SpecDualServer ==
    /\ DualServerSpecInit
    /\ [][DualServerNext]_vars
    /\ \A l \in AcceptLoops : WF_vars(AcceptLoopStep(l))
    /\ WF_vars(WorkerLoopStep)
    /\ WF_vars(StopStep)

====
